---- MODULE Spec2Model ----
\* Synchronization engine of specmgr: SyncService.execute_bulk_sync and its
\* collaborators (manifest, vector store, file system), with the callers that
\* reach it (HTTP endpoints, scheduler, direct callers of one instance).
\*
\* Granularity.  The server is one asyncio event loop.  A coroutine runs
\* without interleaving of other coroutines until it reaches a real suspension
\* point; in execute_bulk_sync the only suspension points are the two
\* asyncio.sleep(0.05) calls (the manifest, hash, embedding and Qdrant calls
\* are "async def" but block).  loopOwner names the pass that is in the middle
\* of such a slice (0: every pass is suspended or finished).  The file system
\* is changed by other processes and therefore at any moment, also inside a
\* slice; passes are split where they touch the file system.
EXTENDS Integers, Sequences, FiniteSets, TLC

\* ---------------------------------------------------------------- bounds
MaxTasks == 2          \* execute_bulk_sync invocations in one behaviour
MaxFsChanges == 1      \* external file-system changes in one behaviour
MaxStamp == 2          \* manifest saves (values of last_updated) in one behaviour
MaxJobs == 2           \* jobs added to the queue in one behaviour
MaxForeign == 1        \* entries that are not JSON pushed on the queue
MaxEvents == 3         \* file-system events handed to the watcher's handler
MaxTicks == 3          \* ticks of the scheduler loop in one behaviour
MaxCycles == 3         \* manifest mutations issued in one behaviour
VectorSize == 3        \* vector_db.vector_size (1536 in config.py), scaled down

\* ------------------------------------------------------------ file system
Paths == {"a.md", "b.md"}
PathList == <<"a.md", "b.md">>      \* directory / dict iteration order

\* State of one path under docs_path.
Absent == "absent"          \* no such file
Text1 == "text1"            \* UTF-8 text, first content
Text2 == "text2"            \* UTF-8 text, second content
NotUtf8 == "not-utf8"       \* bytes that are not valid UTF-8
Unreadable == "unreadable"  \* exists, open() fails
FileStates == {Absent, Text1, Text2, NotUtf8, Unreadable}

EmptyHash == ""
Sha1Hex == [s \in {Text1, Text2, NotUtf8} |->
              CASE s = Text1 -> "h1" [] s = Text2 -> "h2" [] OTHER -> "h3"]

\* FileService._calculate_file_hash: SHA-1 of the bytes, "" when the file
\* cannot be opened or read.
CalculateFileHash(s) ==
    IF s \in {Text1, Text2, NotUtf8} THEN Sha1Hex[s] ELSE EmptyHash

\* open(file_path, encoding="utf-8").read() in sync_file succeeds.
ReadOk(s) == s \in {Text1, Text2}

\* Path.stat() in execute_bulk_sync succeeds (needs no read permission).
StatOk(s) == s # Absent

\* Subsequence of PathList with the paths of S.
SeqOf(S) == SelectSeq(PathList, LAMBDA p : p \in S)

Range(q) == {q[n] : n \in 1..Len(q)}

\* SyncService._get_current_file_hashes: rglob("*.md"), hash each file, keep
\* the files whose hash is not empty.
GetCurrentFileHashes(f) ==
    [p \in {q \in Paths : f[q] # Absent /\ CalculateFileHash(f[q]) # EmptyHash}
        |-> CalculateFileHash(f[p])]

\* ---------------------------------------------------------------- manifest
\* Iteration order of a dict's keys.
Keys(d) == SeqOf(DOMAIN d)

\* (mutation: the elif compares nothing, every known key counts as modified)
RECURSIVE CheckAddedModifiedNoCompare(_, _, _, _, _)
CheckAddedModifiedNoCompare(keys, m, c, added, modified) ==
    IF keys = <<>> THEN <<added, modified>>
    ELSE LET p == Head(keys)
         IN IF p \notin DOMAIN m
            THEN CheckAddedModifiedNoCompare(Tail(keys), m, c,
                                             Append(added, p), modified)
            ELSE CheckAddedModifiedNoCompare(Tail(keys), m, c, added,
                                             Append(modified, p))

\* First loop of ManifestService.get_file_changes, over current_files.items():
\* a key the manifest lacks is added, else a key whose hash differs is
\* modified.
RECURSIVE CheckAddedModified(_, _, _, _, _)
CheckAddedModified(keys, m, c, added, modified) ==
    IF keys = <<>> THEN <<added, modified>>
    ELSE LET p == Head(keys)
         IN IF p \notin DOMAIN m
            THEN CheckAddedModified(Tail(keys), m, c, Append(added, p),
                                    modified)
            ELSE IF m[p] # c[p]
                 THEN CheckAddedModified(Tail(keys), m, c, added,
                                         Append(modified, p))
                 ELSE CheckAddedModified(Tail(keys), m, c, added, modified)

\* Second loop, over the manifest's keys.
RECURSIVE CheckDeleted(_, _, _)
CheckDeleted(keys, c, deleted) ==
    IF keys = <<>> THEN deleted
    ELSE IF Head(keys) \notin DOMAIN c
         THEN CheckDeleted(Tail(keys), c, Append(deleted, Head(keys)))
         ELSE CheckDeleted(Tail(keys), c, deleted)

\* ManifestService.get_file_changes, on the stored files map m and the
\* scanned map c.
GetFileChanges(m, c) ==
    LET am == CheckAddedModified(Keys(c), m, c, <<>>, <<>>)
    IN [added |-> am[1], modified |-> am[2],
        deleted |-> CheckDeleted(Keys(m), c, <<>>)]

\* (mutation: an existing entry keeps its old value)
MapPutKeepsOld(m, p, h) ==
    [q \in DOMAIN m \cup {p} |-> IF q \in DOMAIN m THEN m[q] ELSE h]

\* manifest["files"][file_path] = file_hash
MapPut(m, p, h) == [q \in DOMAIN m \cup {p} |-> IF q = p THEN h ELSE m[q]]
\* (mutation: the key is not removed)
MapPopKeeps(m, p) == m

\* manifest["files"].pop(file_path, None)
MapPop(m, p) == [q \in DOMAIN m \ {p} |-> m[q]]

EmptyMap == [q \in {} |-> ""]

\* ------------------------------------------------------------------ state
Tasks == 1..MaxTasks
\* Engine 0 is the long-lived SyncService instance (SchedulerService's
\* self.sync_service); engine t is the instance the HTTP handler constructs for
\* request t.
SharedEngine == 0
Engines == 0..MaxTasks

VARIABLES
    fs,             \* path -> FileStates
    fsChanges,      \* number of external changes so far
    manifestFiles,  \* "files" of .specmgr-manifest.json
    store,          \* vector store: path -> stored body
    status,         \* engine -> SyncService._sync_status
    tasks,          \* task -> frame of one execute_bulk_sync invocation
    nTasks,         \* invocations made so far
    loopOwner,      \* pass inside an uninterrupted slice, or 0
    reply,          \* answer of the last GET /sync/status
    call,           \* single-file operation of the queue worker's engine
    disk,           \* the manifest file and its neighbours, as bytes on disk
    mop,            \* ManifestService operation in progress or last returned
    redis,          \* the Redis lists of QueueService
    worker,         \* QueueService._start_worker: job in hand and position
    watcher,        \* MarkdownFileHandler: processed_files and its handler tasks
    sched,          \* SchedulerService: running flag and position of its loop
    mcycle          \* load-modify-save cycles on the manifest, per client

\* Variables of the file watcher, of the scheduler loop and of the clients
\* of the manifest file.
bgVars == <<watcher, sched, mcycle>>

\* Variables of the single-file operations, the manifest file, the queue
\* and the watcher: execute_bulk_sync leaves them alone.
callVars == <<call, disk, mop, redis, worker, watcher, mcycle>>

\* The steps of a pass leave these alone; sched changes when it is the
\* scheduler loop that calls execute_bulk_sync.
restVars == <<call, disk, mop, redis, worker, watcher, sched, mcycle>>

vars == <<fs, fsChanges, manifestFiles, store, status, tasks, nTasks,
          loopOwner, reply, call, disk, mop, redis, worker, watcher, sched,
          mcycle>>

IdleStatus == [is_running |-> FALSE, current |-> 0, total |-> 0,
               current_file |-> ""]

ZeroCalls == [p \in Paths |-> 0]

NoTask == [pc |-> "none", engine |-> 0, force |-> FALSE,
           current_files |-> EmptyMap, files_to_sync |-> <<>>,
           files_to_delete |-> <<>>, k |-> 0, errors |-> <<>>,
           processed_files |-> 0, total_files |-> 0, success |-> FALSE,
           deleteCalls |-> ZeroCalls, upsertCalls |-> ZeroCalls,
           failures |-> {}, attempted |-> {}, fsChanged |-> FALSE]

\* Values of the variables of the other components while they are not in
\* use.
NoError == [type |-> "", cause |-> ""]
NoCall == [op |-> "none", path |-> "", pc |-> "idle", fault |-> "none",
           error |-> NoError, manifestBefore |-> EmptyMap,
           storeBefore |-> EmptyMap, repeat |-> FALSE]
\* A file on disk: its text is the sequence of tokens written so far.
AbsentFile == [exists |-> FALSE, text |-> <<>>]
NoDisk == [manifest |-> AbsentFile, tmp |-> AbsentFile,
           corrupted |-> AbsentFile, backup |-> AbsentFile,
           readable |-> TRUE]
\* {"files": {}, "last_updated": None} as load_manifest builds it; a parsed
\* JSON value is its kind, the keys it has and the values of the two keys
\* the service uses (last_updated 0 is null).
EmptyDoc == [kind |-> "object", keys |-> {"files", "last_updated"},
             files |-> EmptyMap, last_updated |-> 0]
NoMop == [op |-> "none", pc |-> "idle", path |-> "", input |-> AbsentFile,
          inputReadable |-> TRUE, old |-> EmptyDoc, doc |-> EmptyDoc,
          result |-> EmptyDoc, error |-> NoError, afterCrash |-> FALSE,
          changes |-> [added |-> <<>>, modified |-> <<>>, deleted |-> <<>>]]
NoRedis == [sync_jobs |-> <<>>, failed_jobs |-> <<>>]
NoJob == [id |-> 0, retry_count |-> 0, last_error |-> ""]
\* log is the history of each job: the failures of its processing so far
\* and the delays of its retries; foreign counts the entries pushed on
\* sync_jobs by others than add_sync_job.
NoWorker == [pc |-> "idle", job |-> NoJob, delay |-> 0, foreign |-> 0,
             log |-> [i \in 1..MaxJobs |->
                        [added |-> FALSE, failures |-> 0, delays |-> <<>>]]]

\* observing: the Observer runs; connected: the QueueService the handler
\* holds has a redis_client; events: the events handed to
\* _handle_file_change and what became of each.
NoWatcher == [observing |-> FALSE, connected |-> FALSE,
              processed_files |-> {}, events |-> <<>>]
\* ticks is the history of the loop: what each tick did.
NoSched == [running |-> FALSE, pc |-> "none", task |-> 0, ticks |-> <<>>]

\* Value of a variable in the specifications that do not run its component:
\* the engine's specifications see the manifest file through manifestFiles
\* and have no queue and no watcher.
Unused == "unused"

\* The manifest and the vector store are as a previous run left them after
\* syncing the files of prev; since then files were written, rewritten or
\* removed.  (Invalid bytes and lost permissions arrive through FsChange.)
Init ==
    \E prev \in [Paths -> {Absent, Text1}],
       cur \in [Paths -> {Absent, Text1, Text2}] :
        /\ fs = cur
        /\ fsChanges = 0
        /\ manifestFiles = GetCurrentFileHashes(prev)
        /\ store = [p \in DOMAIN GetCurrentFileHashes(prev) |-> prev[p]]
        /\ status = [e \in Engines |-> IdleStatus]
        /\ tasks = [t \in Tasks |-> NoTask]
        /\ nTasks = 0
        /\ loopOwner = 0
        /\ reply = [asked |-> FALSE, status |-> IdleStatus,
                    duringPass |-> FALSE, matchesPass |-> FALSE]
        /\ call = NoCall
        /\ disk = Unused
        /\ mop = Unused
        /\ redis = Unused
        /\ worker = Unused
        /\ watcher = Unused
        /\ sched = NoSched
        /\ mcycle = Unused

\* An external process creates, rewrites, removes or chmods a file.
FsChange(p, s) ==
    /\ fsChanges < MaxFsChanges
    /\ s # fs[p]
    /\ fs' = [fs EXCEPT ![p] = s]
    /\ fsChanges' = fsChanges + 1
    /\ tasks' = [t \in Tasks |->
                   IF tasks[t].pc \in {"run", "stat", "done"}
                   THEN [tasks[t] EXCEPT !.fsChanged = TRUE] ELSE tasks[t]]
    /\ UNCHANGED <<manifestFiles, store, status, nTasks, loopOwner, reply,
                   restVars>>

\* Error strings appended to SyncResult.errors.
DeleteErrorMsg(p) == "Delete " \o p \o ": error"
SyncErrorMsg(p) == p \o ": error"

\* Passes between "mark Running" and the finally block.
Active(t) == tasks[t].pc \in {"run", "stat"}
ActiveTasks == {t \in Tasks : Active(t)}

\* Steps 4-5 of execute_bulk_sync: the work list of a pass.
\* (mutation: force is ignored, unchanged files are skipped)
FilesToSyncSkipsUnchanged(force, m, c) ==
    GetFileChanges(m, c).added \o GetFileChanges(m, c).modified

FilesToSync(force, m, c) ==
    IF force THEN Keys(c)
    ELSE GetFileChanges(m, c).added \o GetFileChanges(m, c).modified

\* (mutation: force is ignored, vanished files are deleted)
FilesToDeleteAlsoForced(force, m, c) == GetFileChanges(m, c).deleted

FilesToDelete(force, m, c) ==
    IF force THEN <<>> ELSE GetFileChanges(m, c).deleted

\* (mutation: the test at the head of execute_bulk_sync is dropped)
AlreadyRunningNoTest(e) == FALSE

\* The test at the head of execute_bulk_sync.
AlreadyRunning(e) == status[e].is_running

\* (mutation: the finally block forgets is_running)
FinallyStatusKeepsRunning(st) == [st EXCEPT !.current_file = ""]

\* The finally block of execute_bulk_sync.
FinallyStatus(st) == [st EXCEPT !.is_running = FALSE, !.current_file = ""]

\* The frames as a new invocation t finds them: a result returned before
\* the previous invocation's is with its caller and no longer part of the
\* state.
Forget(t) ==
    [u \in Tasks |->
        IF u < t - 1 /\ tasks[u].pc \in {"done", "raised", "rejected",
                                         "cancelled"}
        THEN [NoTask EXCEPT !.pc = "gone"]
        ELSE tasks[u]]

\* execute_bulk_sync(force) called on engine e, up to the first touch of a
\* file by the loops: the is_running test, marking Running,
\* initialize_collection, the scan, the diff and the progress counters.  A
\* failure of initialize_collection, of the scan or of the diff raises
\* through the finally block.
ExecuteBulkSync(t, e, force) ==
    /\ loopOwner = 0
    /\ t = nTasks + 1
    /\ t \in Tasks
    /\ nTasks' = t
    /\ IF AlreadyRunning(e)
       THEN /\ tasks' = [Forget(t) EXCEPT ![t] =
                  [NoTask EXCEPT !.pc = "rejected",
                                 !.engine = e, !.force = force]]
            /\ UNCHANGED <<status, loopOwner>>
       ELSE \E fault \in {"none", "init", "scan"} :
              IF fault # "none"
              THEN /\ tasks' = [Forget(t) EXCEPT ![t] =
                         [NoTask EXCEPT !.pc = "raised",
                                        !.engine = e, !.force = force]]
                   /\ status' = [status EXCEPT ![e] = FinallyStatus(
                                    [@ EXCEPT !.is_running = TRUE])]
                   /\ UNCHANGED loopOwner
              ELSE LET c == GetCurrentFileHashes(fs)
                       sy == FilesToSync(force, manifestFiles, c)
                       de == FilesToDelete(force, manifestFiles, c)
                   IN /\ tasks' = [Forget(t) EXCEPT ![t] =
                            [NoTask EXCEPT
                                    !.pc = "run",
                                    !.engine = e, !.force = force,
                                    !.current_files = c,
                                    !.files_to_sync = sy,
                                    !.files_to_delete = de]]
                      /\ status' = [status EXCEPT ![e] =
                            [@ EXCEPT !.is_running = TRUE,
                                      !.total = Len(sy) + Len(de),
                                      !.current = 0]]
                      /\ loopOwner' = t
    /\ UNCHANGED <<fs, fsChanges, manifestFiles, store, reply,
                   callVars>>

\* POST /sync/bulk: the handler constructs a SyncService and runs a pass on it.
HttpBulkSync(force) ==
    /\ ExecuteBulkSync(nTasks + 1, nTasks + 1, force)
    /\ UNCHANGED sched

\* A caller holding the long-lived instance calls execute_bulk_sync on it.
DirectBulkSync(force) ==
    /\ ExecuteBulkSync(nTasks + 1, SharedEngine, force)
    /\ UNCHANGED sched

\* One tick of SchedulerService._periodic_full_sync_check: a differential
\* pass is started only when the scheduler's own instance reports idle.  (The
\* loop awaits its pass; while that pass is in flight the instance reports
\* running, so the loop's own pass never needs a separate guard.)
SchedulerTick ==
    /\ ~status[SharedEngine].is_running
    /\ ExecuteBulkSync(nTasks + 1, SharedEngine, FALSE)
    /\ UNCHANGED sched

\* A pass may take its next step: it is inside a slice, or it is suspended
\* in asyncio.sleep and the loop is free to resume it.
CanRun(t) == tasks[t].pc = "run" /\ loopOwner \in {0, t}

Suspended(t) == tasks[t].pc = "run" /\ loopOwner # t

Inc(f, p) == [f EXCEPT ![p] = @ + 1]

\* (mutation: processed_files is incremented before the work, not after)
CountProcessedAlways(n, ok) == n + 1

\* processed_files += 1 is the last statement of the try block before the
\* chunk estimate: it runs only when nothing before it raised.
CountProcessed(n, ok) == IF ok THEN n + 1 ELSE n

\* One iteration of the deletion loop: progress, delete_document,
\* remove_file_from_manifest, then asyncio.sleep(0.05) outside the try.
DeleteStep(t) ==
    LET T == tasks[t]
        i == T.k + 1
        p == T.files_to_delete[i]
    IN /\ CanRun(t)
       /\ T.k < Len(T.files_to_delete)
       /\ status' = [status EXCEPT ![T.engine] =
                       [@ EXCEPT !.current = i,
                                 !.current_file = "Deleting " \o p]]
       /\ \E outcome \in {"ok", "delete", "manifest"} :
            /\ store' = IF outcome = "delete" THEN store
                        ELSE MapPop(store, p)
            /\ manifestFiles' = IF outcome = "ok" THEN MapPop(manifestFiles, p)
                                ELSE manifestFiles
            /\ tasks' = [tasks EXCEPT ![t] =
                 [T EXCEPT
                    !.k = i,
                    !.attempted = @ \cup {p},
                    !.deleteCalls = Inc(@, p),
                    !.processed_files = CountProcessed(@, outcome = "ok"),
                    !.errors = IF outcome = "ok" THEN @
                               ELSE Append(@, DeleteErrorMsg(p)),
                    !.failures = IF outcome = "ok" THEN @
                                 ELSE @ \cup {<<p, outcome>>}]]
       /\ loopOwner' = 0
       /\ UNCHANGED <<fs, fsChanges, nTasks, reply,
                   restVars>>

\* (mutation: the sync loop does not wait for the deletion loop)
SyncIndexFromStart(T) == T.k + 1

\* Index in files_to_sync of the file the pass is at: the sync loop begins
\* where the deletion loop has ended.
SyncIndex(T) == T.k - Len(T.files_to_delete) + 1

\* (mutation: the sync loop counts from its own start)
CurrentOfSyncLocal(T, j) == j

\* _sync_status["current"] of the j-th iteration of the sync loop:
\* len(files_to_delete) + i + 1 with i counted from 0.
CurrentOfSync(T, j) == Len(T.files_to_delete) + j

\* (mutation: the fingerprint is written whether or not sync_file raised)
WritesFingerprintAnyway(outcome) == TRUE

\* update_file_in_manifest follows sync_file inside one try block: it is
\* reached only when sync_file returned, and it can fail itself.
WritesFingerprint(outcome) == outcome = "ok"

\* One iteration of the sync loop up to processed_files += 1: progress,
\* sync_file (read, embedding, store_document) and update_file_in_manifest
\* with the hash taken by the scan.  A failure is appended to errors and the
\* loop goes on to the next file without suspending.
SyncStep(t) ==
    LET T == tasks[t]
        j == SyncIndex(T)
        p == T.files_to_sync[j]
    IN /\ CanRun(t)
       /\ j \in 1..Len(T.files_to_sync)
       /\ status' = [status EXCEPT ![T.engine] =
                       [@ EXCEPT !.current = CurrentOfSync(T, j),
                                 !.current_file = p]]
       /\ \E fault \in {"ok", "embed", "store", "manifest"} :
            LET outcome == IF ReadOk(fs[p]) THEN fault ELSE "read"
                stored == outcome \in {"ok", "manifest"}
                failed == outcome # "ok"
            IN /\ store' = IF stored THEN MapPut(store, p, fs[p]) ELSE store
               /\ manifestFiles' =
                    IF WritesFingerprint(outcome)
                    THEN MapPut(manifestFiles, p, T.current_files[p])
                    ELSE manifestFiles
               /\ tasks' = [tasks EXCEPT ![t] =
                    [T EXCEPT
                       !.pc = IF failed THEN "run" ELSE "stat",
                       !.k = IF failed THEN @ + 1 ELSE @,
                       !.attempted = @ \cup {p},
                       !.upsertCalls = IF outcome \in {"ok", "store", "manifest"}
                                       THEN Inc(@, p) ELSE @,
                       !.processed_files = CountProcessed(@, ~failed),
                       !.errors = IF failed THEN Append(@, SyncErrorMsg(p))
                                  ELSE @,
                       !.failures = IF failed THEN @ \cup {<<p, outcome>>}
                                    ELSE @]]
       /\ loopOwner' = t
       /\ UNCHANGED <<fs, fsChanges, nTasks, reply,
                   restVars>>

\* The rest of the iteration: file_path.stat() for the chunk estimate, then
\* asyncio.sleep(0.05).  stat() raising (the file is gone) lands in the same
\* except clause, after processed_files was incremented.
StatStep(t) ==
    LET T == tasks[t]
        p == T.files_to_sync[SyncIndex(T)]
    IN /\ T.pc = "stat"
       /\ loopOwner = t
       /\ tasks' = [tasks EXCEPT ![t] =
            [T EXCEPT !.pc = "run",
                      !.k = @ + 1,
                      !.errors = IF StatOk(fs[p]) THEN @
                                 ELSE Append(@, SyncErrorMsg(p))]]
       /\ loopOwner' = IF StatOk(fs[p]) THEN 0 ELSE t
       /\ UNCHANGED <<fs, fsChanges, manifestFiles, store, status, nTasks,
                      reply,
                   restVars>>

\* Both loops are over: build the BulkSyncResult, run the finally block.
\* What is left of the invocation is the result it returned.
Finish(t) ==
    LET T == tasks[t]
    IN /\ CanRun(t)
       /\ T.k = Len(T.files_to_delete) + Len(T.files_to_sync)
       /\ tasks' = [tasks EXCEPT ![t] =
            [NoTask EXCEPT !.pc = "done",
                           !.engine = T.engine,
                           !.force = T.force,
                           !.success = (Len(T.errors) = 0),
                           !.total_files = Cardinality(DOMAIN T.current_files),
                           !.processed_files = T.processed_files,
                           !.errors = T.errors,
                           !.fsChanged = T.fsChanged]]
       /\ status' = [status EXCEPT ![T.engine] = FinallyStatus(@)]
       /\ loopOwner' = 0
       /\ UNCHANGED <<fs, fsChanges, manifestFiles, store, nTasks, reply,
                   restVars>>

\* The task awaiting the pass is cancelled while the pass is suspended in
\* asyncio.sleep: CancelledError is not an Exception, so no except clause
\* catches it and it leaves through the finally block.
Cancel(t) ==
    /\ Suspended(t)
    /\ loopOwner = 0
    /\ tasks' = [tasks EXCEPT ![t] =
         [NoTask EXCEPT !.pc = "cancelled", !.engine = tasks[t].engine,
                        !.force = tasks[t].force]]
    /\ status' = [status EXCEPT ![tasks[t].engine] = FinallyStatus(@)]
    /\ UNCHANGED <<fs, fsChanges, manifestFiles, store, nTasks, loopOwner,
                   reply,
                   restVars>>

\* SyncService.get_sync_status on an engine whose _sync_status is st: one
\* read of the four fields, with no suspension point in between.
GetSyncStatus(st) ==
    [is_running |-> st.is_running, current |-> st.current,
     total |-> st.total, current_file |-> st.current_file]

\* _sync_status of the SyncService instance the GET /sync/status handler
\* constructs (SyncService.__init__).
NewEngineStatus == IdleStatus

\* GET /sync/status: the handler constructs a SyncService and returns its
\* get_sync_status().  duringPass records whether a bulk pass was between
\* "mark Running" and its finally block when the query was served.
HttpGetSyncStatus ==
    /\ loopOwner = 0
    /\ reply' = [asked |-> TRUE,
                 status |-> GetSyncStatus(NewEngineStatus),
                 duringPass |-> (ActiveTasks # {}),
                 matchesPass |->
                     \E t \in ActiveTasks :
                         GetSyncStatus(NewEngineStatus) =
                             GetSyncStatus(status[tasks[t].engine])]
    /\ UNCHANGED <<fs, fsChanges, manifestFiles, store, status, tasks, nTasks,
                   loopOwner,
                   restVars>>

\* The application: bulk passes started over HTTP (one engine per request),
\* by the scheduler and by holders of the long-lived engine; the documents
\* directory does not change while it runs.
Next ==
    \/ \E force \in BOOLEAN : HttpBulkSync(force)
    \/ \E force \in BOOLEAN : DirectBulkSync(force)
    \/ SchedulerTick
    \/ \E t \in Tasks : DeleteStep(t)
    \/ \E t \in Tasks : SyncStep(t)
    \/ \E t \in Tasks : StatStep(t)
    \/ \E t \in Tasks : Finish(t)
    \/ \E t \in Tasks : Cancel(t)

Spec == Init /\ [][Next]_vars

\* The application with clients that poll GET /sync/status.
NextStatus ==
    \/ \E force \in BOOLEAN : HttpBulkSync(force)
    \/ \E force \in BOOLEAN : DirectBulkSync(force)
    \/ SchedulerTick
    \/ \E t \in Tasks : DeleteStep(t)
    \/ \E t \in Tasks : SyncStep(t)
    \/ \E t \in Tasks : StatStep(t)
    \/ \E t \in Tasks : Finish(t)
    \/ \E t \in Tasks : Cancel(t)
    \/ HttpGetSyncStatus

SpecStatus == Init /\ [][NextStatus]_vars

\* Passes of one engine instance, with the documents directory changing
\* underneath them.  (A scheduler tick is DirectBulkSync(FALSE) on an idle
\* engine.)
NextPass ==
    \/ \E p \in Paths, s \in FileStates : FsChange(p, s)
    \/ \E force \in BOOLEAN : DirectBulkSync(force)
    \/ \E t \in Tasks : DeleteStep(t)
    \/ \E t \in Tasks : SyncStep(t)
    \/ \E t \in Tasks : StatStep(t)
    \/ \E t \in Tasks : Finish(t)
    \/ \E t \in Tasks : Cancel(t)

SpecPass == Init /\ [][NextPass]_vars

\* =================================================================== claims

\* The loops of pass t are over and it is about to return its result.
AtEnd(t) ==
    /\ tasks[t].pc = "run"
    /\ tasks[t].k = Len(tasks[t].files_to_delete) + Len(tasks[t].files_to_sync)

\* Paths at which an operation of the frame T failed.
FailedPaths(T) == {f[1] : f \in T.failures}

\* The work list of the frame T in processing order.
Planned(T) == T.files_to_delete \o T.files_to_sync

RECURSIVE SumOver(_, _)
SumOver(f, S) ==
    IF S = {} THEN 0
    ELSE LET x == CHOOSE y \in S : TRUE IN f[x] + SumOver(f, S \ {x})

\* Number of entries of errors that name the path p.
ErrorsNaming(T, p) ==
    Cardinality({n \in 1..Len(T.errors) :
                    T.errors[n] \in {DeleteErrorMsg(p), SyncErrorMsg(p)}})

\* C1: on one engine instance, a call of execute_bulk_sync made while a pass
\* of that instance is Running is rejected with SyncInProgress at once and
\* changes nothing (the in-flight pass keeps its total and current), and two
\* passes of one instance are never Running together.
SingleFlightPerEngine ==
    /\ [](\A t, u \in ActiveTasks :
            t # u => tasks[t].engine # tasks[u].engine)
    /\ [][\A t \in Tasks :
            (/\ tasks[t].pc = "none"
             /\ tasks'[t].pc # "none"
             /\ status[tasks'[t].engine].is_running)
            => (/\ tasks'[t].pc = "rejected"
                /\ status' = status
                /\ \A u \in Tasks \ {t} : Active(u) => tasks'[u] = tasks[u])]_vars

\* C1 witness: a call was rejected while a pass of the same engine is in
\* flight with progress to lose.
RejectedWhileRunning ==
    \E t, u \in Tasks :
        /\ tasks[t].pc = "rejected"
        /\ Active(u)
        /\ tasks[u].engine = tasks[t].engine
        /\ status[tasks[u].engine].current > 0
        /\ status[tasks[u].engine].total > status[tasks[u].engine].current

\* C2: at most one bulk pass is active in the process at any time, whichever
\* component started it.
AtMostOneActivePass == Cardinality(ActiveTasks) <= 1

\* C3: a status query through GET /sync/status served while a bulk pass is
\* Running answers is_running = true with that pass's current and total.
HttpStatusShowsRunningPass ==
    (reply.asked /\ reply.duringPass)
        => (reply.status.is_running /\ reply.matchesPass)

\* C4: an engine is Running only while a pass of it is in flight: every way
\* out of execute_bulk_sync (result, failure of initialisation, scan or diff,
\* cancellation) has reset is_running, so the next call is accepted.
NeverStuckRunning ==
    \A e \in Engines :
        status[e].is_running
            => \E t \in ActiveTasks : tasks[t].engine = e

\* C4 witness: a pass was cancelled in flight and a later call on the same
\* engine was accepted.
AcceptedAfterCancel ==
    \E t, u \in Tasks :
        /\ t < u
        /\ tasks[t].pc = "cancelled"
        /\ tasks[u].engine = tasks[t].engine
        /\ tasks[u].pc \in {"run", "stat", "done"}

\* C5: the lists a differential pass gets from the diff of the stored
\* manifest and the scanned map are: added = scanned keys the manifest lacks,
\* modified = keys of both with different hashes, deleted = manifest keys
\* that were not scanned; no path is listed twice, the three are pairwise
\* disjoint and a path with an unchanged hash is in none.
DiffIsExact ==
    \A t \in Tasks :
        (tasks[t].pc = "run" /\ tasks[t].k = 0 /\ ~tasks[t].force) =>
            LET m == manifestFiles
                c == tasks[t].current_files
                ch == GetFileChanges(m, c)
                A == Range(ch.added)
                M == Range(ch.modified)
                D == Range(ch.deleted)
            IN /\ A = {p \in DOMAIN c : p \notin DOMAIN m}
               /\ M = {p \in DOMAIN c \cap DOMAIN m : m[p] # c[p]}
               /\ D = {p \in DOMAIN m : p \notin DOMAIN c}
               /\ Len(ch.added) = Cardinality(A)
               /\ Len(ch.modified) = Cardinality(M)
               /\ Len(ch.deleted) = Cardinality(D)
               /\ A \cap M = {} /\ A \cap D = {} /\ M \cap D = {}
               /\ \A p \in DOMAIN c \cap DOMAIN m :
                     m[p] = c[p] => p \notin A \cup M \cup D
               /\ tasks[t].files_to_sync = ch.added \o ch.modified
               /\ tasks[t].files_to_delete = ch.deleted

\* C5 witness: a differential pass whose diff has a deleted path next to a
\* modified one.
DiffWithDeletedAndModified ==
    \E t \in Tasks :
        /\ tasks[t].pc = "run" /\ tasks[t].k = 0 /\ ~tasks[t].force
        /\ GetFileChanges(manifestFiles, tasks[t].current_files).deleted # <<>>
        /\ GetFileChanges(manifestFiles, tasks[t].current_files).modified # <<>>

\* C6: when a differential pass ends with no error and the documents
\* directory did not change during it, the manifest's files map equals the
\* scanned map; the differential pass that follows it, with the directory
\* still unchanged, has nothing to sync or delete and processes 0 files.
CleanPassConverges ==
    /\ \A t \in Tasks :
          (AtEnd(t) /\ ~tasks[t].force /\ tasks[t].errors = <<>>
                    /\ ~tasks[t].fsChanged)
              => manifestFiles = tasks[t].current_files
    /\ \A t \in Tasks \ {1} :
          (/\ tasks[t - 1].pc = "done"
           /\ ~tasks[t - 1].force
           /\ tasks[t - 1].success
           /\ ~tasks[t - 1].fsChanged
           /\ ~tasks[t].force
           /\ tasks[t].pc \in {"run", "stat", "done"})
              => /\ tasks[t].files_to_sync = <<>>
                 /\ tasks[t].files_to_delete = <<>>
                 /\ tasks[t].upsertCalls = ZeroCalls
                 /\ tasks[t].deleteCalls = ZeroCalls
                 /\ tasks[t].processed_files = 0
                 /\ tasks[t].errors = <<>>

\* C6 witness: a clean differential pass that had work to do was followed by
\* a differential pass that has completed.
SecondPassAfterCleanPass ==
    \E t \in Tasks \ {1} :
        /\ tasks[t - 1].pc = "done"
        /\ ~tasks[t - 1].force
        /\ tasks[t - 1].success
        /\ tasks[t - 1].processed_files > 0
        /\ ~tasks[t - 1].fsChanged
        /\ ~tasks[t].force
        /\ tasks[t].pc = "done"

\* C7 as stated: at the end of a differential pass every path of the
\* deletion list had delete_document called exactly once, is absent from
\* the manifest and was counted as processed.
DeletedPathsAreGone ==
    \A t \in Tasks :
        (AtEnd(t) /\ ~tasks[t].force) =>
            \A p \in Range(tasks[t].files_to_delete) :
                /\ tasks[t].deleteCalls[p] = 1
                /\ p \notin DOMAIN manifestFiles
                /\ p \notin FailedPaths(tasks[t])

\* C7 amended: the deletion list of a differential pass is the manifest
\* paths absent from the scan; at the end of the pass delete_document was
\* called exactly once for each of them; a path whose delete_document and
\* manifest removal succeeded is absent from the manifest and counted as
\* processed, a path for which one of them failed is still in the manifest,
\* has one error string and is not counted.
DeletedPathsAreGoneUnlessFailed ==
    \A t \in Tasks :
        (tasks[t].pc = "run" /\ ~tasks[t].force) =>
            /\ tasks[t].k = 0 =>
                  Range(tasks[t].files_to_delete) =
                      DOMAIN manifestFiles \ DOMAIN tasks[t].current_files
            /\ AtEnd(t) =>
                  /\ \A p \in Range(tasks[t].files_to_delete) :
                        /\ tasks[t].deleteCalls[p] = 1
                        /\ IF p \in FailedPaths(tasks[t])
                           THEN /\ p \in DOMAIN manifestFiles
                                /\ ErrorsNaming(tasks[t], p) = 1
                           ELSE /\ p \notin DOMAIN manifestFiles
                                /\ ErrorsNaming(tasks[t], p) = 0
                  /\ tasks[t].processed_files >=
                        Cardinality(Range(tasks[t].files_to_delete)
                                        \ FailedPaths(tasks[t]))

\* C7 witness: a differential pass ended after deleting a vanished path.
DeletionProcessed ==
    \E t \in Tasks : \E p \in Paths :
        /\ AtEnd(t) /\ ~tasks[t].force
        /\ p \in Range(tasks[t].files_to_delete)
        /\ p \notin FailedPaths(tasks[t])
        /\ fs[p] = Absent

\* C8 as stated: a force pass with no change of the directory and no
\* store-write failure processes every scanned file and upserts total_files
\* times.
ForceProcessesAllBarStoreFailure ==
    \A t \in Tasks :
        (/\ AtEnd(t) /\ tasks[t].force /\ ~tasks[t].fsChanged
         /\ \A f \in tasks[t].failures : f[2] # "store")
            => /\ tasks[t].processed_files =
                     Cardinality(DOMAIN tasks[t].current_files)
               /\ SumOver(tasks[t].upsertCalls, Paths) =
                     Cardinality(DOMAIN tasks[t].current_files)

\* C8 amended: a force pass with no change of the directory in which no
\* file fails (read, embedding, store-write, manifest write) processes
\* every scanned file and upserts each exactly once, whatever the manifest
\* records, the second time as the first.
ForceProcessesAllBarFailure ==
    \A t \in Tasks :
        /\ (AtEnd(t) /\ tasks[t].force /\ ~tasks[t].fsChanged
                     /\ tasks[t].failures = {})
              => /\ tasks[t].processed_files =
                       Cardinality(DOMAIN tasks[t].current_files)
                 /\ \A p \in Paths :
                       tasks[t].upsertCalls[p] =
                           IF p \in DOMAIN tasks[t].current_files THEN 1 ELSE 0
        /\ (tasks[t].pc = "done" /\ tasks[t].force /\ tasks[t].success)
              => tasks[t].processed_files = tasks[t].total_files

\* C8 witness: a second force pass in a row ends, the first having processed
\* all of its files, with files present and already in the manifest.
SecondForcePassEnds ==
    \E t \in Tasks \ {1} :
        /\ tasks[t - 1].pc = "done" /\ tasks[t - 1].force
        /\ tasks[t - 1].success /\ tasks[t - 1].total_files > 0
        /\ ~tasks[t - 1].fsChanged
        /\ AtEnd(t) /\ tasks[t].force /\ tasks[t].failures = {}
        /\ tasks[t].processed_files > 0

\* C9: a force pass calls delete_document for no path and has an empty
\* deletion list, and no step taken while it is in flight removes a manifest
\* entry or a stored document or alters those of a path it did not scan.
ForceNeverDeletes ==
    /\ [](\A t \in Tasks :
            (Active(t) /\ tasks[t].force) =>
                /\ tasks[t].deleteCalls = ZeroCalls
                /\ tasks[t].files_to_delete = <<>>)
    /\ [][\A t \in Tasks :
            (Active(t) /\ tasks[t].force) =>
                /\ DOMAIN manifestFiles \subseteq DOMAIN manifestFiles'
                /\ DOMAIN store \subseteq DOMAIN store'
                /\ \A p \in Paths \ DOMAIN tasks[t].current_files :
                      /\ p \in DOMAIN manifestFiles =>
                            manifestFiles'[p] = manifestFiles[p]
                      /\ p \in DOMAIN store => store'[p] = store[p]]_vars

\* C9 witness: a force pass that synced a file ends while the manifest and
\* the store still hold a path whose file has vanished.
ForcePassKeepsVanished ==
    \E t \in Tasks : \E p \in Paths :
        /\ AtEnd(t) /\ tasks[t].force /\ tasks[t].processed_files > 0
        /\ fs[p] = Absent /\ ~tasks[t].fsChanged
        /\ p \in DOMAIN manifestFiles /\ p \in DOMAIN store

\* C10: a failure of one file (delete, read, embedding, store-write,
\* manifest write) does not end the pass: the pass returns a result only
\* after every listed file was attempted; each failed file has exactly one
\* error string naming it, processed_files is the number of attempted files
\* that did not fail, and success is true iff errors is empty.
FailuresAreRecordedAndPassGoesOn ==
    /\ [](\A t \in Tasks :
            /\ tasks[t].pc = "run" =>
                  /\ tasks[t].attempted =
                        {Planned(tasks[t])[n] : n \in 1..tasks[t].k}
                  /\ \A p \in FailedPaths(tasks[t]) :
                        ErrorsNaming(tasks[t], p) = 1
                  /\ tasks[t].processed_files =
                        Cardinality(tasks[t].attempted \ FailedPaths(tasks[t]))
            /\ tasks[t].pc = "done" =>
                  (tasks[t].success <=> tasks[t].errors = <<>>))
    /\ [][\A t \in Tasks :
            /\ (tasks[t].pc # "done" /\ tasks'[t].pc = "done") =>
                  /\ AtEnd(t)
                  /\ tasks'[t].processed_files = tasks[t].processed_files
                  /\ tasks'[t].errors = tasks[t].errors
            /\ (Active(t) /\ tasks'[t].failures # tasks[t].failures
                           /\ tasks[t].k + 1 < Len(Planned(tasks[t]))) =>
                  Active(t)']_vars

\* C10 witness: a pass ends in which a file failed and a later file was
\* processed.
LaterFileProcessedAfterFailure ==
    \E t \in Tasks : \E i, j \in 1..Cardinality(Paths) :
        /\ AtEnd(t)
        /\ i < j /\ j <= Len(Planned(tasks[t]))
        /\ Planned(tasks[t])[i] \in FailedPaths(tasks[t])
        /\ Planned(tasks[t])[j] \notin FailedPaths(tasks[t])
        /\ tasks[t].processed_files = 1

\* C11: whenever no operation is in progress, a path is a key of the
\* manifest if and only if a document for that path is in the vector store,
\* also after operations in which a store or manifest operation failed.
ManifestKeysAreStoredPaths ==
    (loopOwner = 0 /\ \A t \in Tasks : tasks[t].pc \notin {"run", "stat"})
        => DOMAIN manifestFiles = DOMAIN store

\* C14: whenever is_running is false, current = 0 and current_file = "".
IdleMeansZeroProgress ==
    \A e \in Engines :
        ~status[e].is_running
            => (status[e].current = 0 /\ status[e].current_file = "")

\* C16: a file that exists but cannot be hashed by the scan is left out of
\* current_files and the pass neither upserts it nor deletes its document
\* or its manifest entry.
UnhashableFileIsNoSignal ==
    \A t \in Tasks : \A p \in Paths :
        (/\ tasks[t].pc = "run"
         /\ ~tasks[t].fsChanged
         /\ fs[p] = Unreadable)
            => /\ p \notin DOMAIN tasks[t].current_files
               /\ tasks[t].upsertCalls[p] = 0
               /\ tasks[t].deleteCalls[p] = 0
               /\ p \notin Range(tasks[t].files_to_delete)

\* ------------------------------------------- progress of one engine's pass
\* The head of execute_bulk_sync in two steps, to see what a reader of the
\* same engine can observe between "mark Running" and the progress counters.

\* (mutation: initialize_collection or the scan suspends, the loop is free
\* between "mark Running" and the counters)
SliceAfterMarkYields(t) == 0

\* Owner of the event loop after is_running was set: initialize_collection,
\* _get_current_file_hashes and get_file_changes are awaited but contain no
\* suspension point, the pass keeps the loop.
SliceAfterMark(t) == t

\* The is_running test and "mark Running" of a call on engine e.
MarkRunning(t, e, force) ==
    /\ loopOwner = 0
    /\ t = nTasks + 1
    /\ t \in Tasks
    /\ nTasks' = t
    /\ IF AlreadyRunning(e)
       THEN /\ tasks' = [Forget(t) EXCEPT ![t] =
                  [NoTask EXCEPT !.pc = "rejected",
                                 !.engine = e, !.force = force]]
            /\ UNCHANGED <<status, loopOwner>>
       ELSE /\ tasks' = [Forget(t) EXCEPT ![t] =
                  [NoTask EXCEPT !.pc = "marked",
                                 !.engine = e, !.force = force]]
            /\ status' = [status EXCEPT ![e] = [@ EXCEPT !.is_running = TRUE]]
            /\ loopOwner' = SliceAfterMark(t)
    /\ UNCHANGED <<fs, fsChanges, manifestFiles, store, reply,
                   restVars>>

DirectMarkRunning(force) == MarkRunning(nTasks + 1, SharedEngine, force)

\* initialize_collection, the scan, the diff and the progress counters of a
\* pass that was marked Running; a failure raises through the finally block.
ScanAndDiff(t) ==
    LET T == tasks[t]
    IN /\ T.pc = "marked"
       /\ loopOwner \in {0, t}
       /\ \E fault \in {"none", "init", "scan"} :
            IF fault # "none"
            THEN /\ tasks' = [tasks EXCEPT ![t] = [T EXCEPT !.pc = "raised"]]
                 /\ status' = [status EXCEPT ![T.engine] = FinallyStatus(@)]
                 /\ loopOwner' = 0
            ELSE LET c == GetCurrentFileHashes(fs)
                     sy == FilesToSync(T.force, manifestFiles, c)
                     de == FilesToDelete(T.force, manifestFiles, c)
                 IN /\ tasks' = [tasks EXCEPT ![t] =
                          [T EXCEPT !.pc = "run",
                                    !.current_files = c,
                                    !.files_to_sync = sy,
                                    !.files_to_delete = de]]
                    /\ status' = [status EXCEPT ![T.engine] =
                          [@ EXCEPT !.total = Len(sy) + Len(de),
                                    !.current = 0]]
                    /\ loopOwner' = t
       /\ UNCHANGED <<fs, fsChanges, manifestFiles, store, nTasks, reply,
                   restVars>>

\* A coroutine holding the long-lived engine calls get_sync_status on it
\* (as SchedulerService._periodic_full_sync_check does).  matchesPass records
\* whether the counters read are those of the pass in flight.
GetSyncStatusCall ==
    /\ loopOwner = 0
    /\ reply' =
         [asked |-> TRUE,
          status |-> GetSyncStatus(status[SharedEngine]),
          duringPass |->
              \E t \in Tasks : /\ tasks[t].pc \in {"marked", "run", "stat"}
                               /\ tasks[t].engine = SharedEngine,
          matchesPass |->
              \E t \in Tasks :
                  /\ tasks[t].pc = "run"
                  /\ tasks[t].engine = SharedEngine
                  /\ status[SharedEngine].total =
                        Len(tasks[t].files_to_delete)
                            + Len(tasks[t].files_to_sync)
                  /\ status[SharedEngine].current = tasks[t].k]
    /\ UNCHANGED <<fs, fsChanges, manifestFiles, store, status, tasks, nTasks,
                   loopOwner,
                   restVars>>

\* Passes of the long-lived engine and readers of its status.
NextProgress ==
    \/ \E force \in BOOLEAN : DirectMarkRunning(force)
    \/ \E t \in Tasks : ScanAndDiff(t)
    \/ \E t \in Tasks : DeleteStep(t)
    \/ \E t \in Tasks : SyncStep(t)
    \/ \E t \in Tasks : StatStep(t)
    \/ \E t \in Tasks : Finish(t)
    \/ \E t \in Tasks : Cancel(t)
    \/ GetSyncStatusCall

SpecProgress == Init /\ [][NextProgress]_vars

\* C15: a reader of get_sync_status at a suspension point of a pass never
\* sees is_running = true with total or current of an earlier pass: whenever
\* the loop is free while a pass is in flight, the counters are those of
\* that pass, and every snapshot read with is_running = true carries them.
NoTornSnapshot ==
    /\ \A t \in Tasks :
          (tasks[t].pc \in {"marked", "run"} /\ loopOwner = 0)
              => /\ tasks[t].pc = "run"
                 /\ status[tasks[t].engine].is_running
                 /\ status[tasks[t].engine].total = Len(Planned(tasks[t]))
                 /\ status[tasks[t].engine].current = tasks[t].k
    /\ (reply.asked /\ reply.status.is_running) => reply.matchesPass

\* C15 witness: a differential pass with one file was followed by a force
\* pass over two files, and a reader saw the force pass at its first
\* suspension point.
SnapshotOfSecondPass ==
    \E t \in Tasks \ {1} :
        /\ tasks[t - 1].pc = "done" /\ ~tasks[t - 1].force
        /\ tasks[t - 1].success /\ tasks[t - 1].processed_files = 1
        /\ tasks[t].pc = "run" /\ tasks[t].force
        /\ reply.asked /\ reply.status.is_running
        /\ reply.status.total = 2 /\ reply.status.current = 1

\* ------------------------------------------------- single-file operations
\* sync_single_file and remove_file, as the queue worker calls them one at
\* a time.  call holds the operation, its position, the fault injected into
\* a collaborator, the exception that left it and the manifest and store as
\* they were when it began.

\* Exception raised by the failing step of the given kind.
RaisedBy(kind) ==
    [type |-> CASE kind = "read" -> "OSError"
                [] kind = "embed" -> "EmbeddingError"
                [] kind = "manifest" -> "ManifestError"
                [] kind = "pop" -> "KeyError"
                [] OTHER -> "QdrantError",
     cause |-> ""]

\* "if not isinstance(e, SyncError): raise SyncError(...) from e; raise".
WrapSyncError(e) ==
    IF e.type = "SyncError" THEN e
    ELSE [type |-> "SyncError", cause |-> e.type]

\* "if not isinstance(e, ManifestError): raise ManifestError(...) from e".
WrapManifestError(e) ==
    IF e.type = "ManifestError" THEN e
    ELSE [type |-> "ManifestError", cause |-> e.type]

\* (mutation: pop without a default, a missing key raises KeyError)
PopRaisesOnMissing(m, p) == p \notin DOMAIN m

\* manifest["files"].pop(file_path, None) raises.
PopRaises(m, p) == FALSE

\* EmbeddingService._get_zero_vector: [0.0] * vector_size.
GetZeroVector == [i \in 1..VectorSize |-> 0]

\* EmbeddingService.generate_embedding(text): vector_size components taken
\* from the SHA-256 of the text and normalised; they differ from text to
\* text and are not all zero.
GenerateEmbedding(text) ==
    [i \in 1..VectorSize |-> IF text = Text1 THEN i ELSE VectorSize + i]

\* (mutation: the embedding is generated whether or not the service is
\* available)
VectorForAlwaysEmbeds(available, text) == GenerateEmbedding(text)

\* sync_file: the vector handed to store_document.
VectorFor(available, text) ==
    IF available THEN GenerateEmbedding(text) ELSE GetZeroVector

\* sync_single_file(p), first half: sync_file reads the file as UTF-8,
\* takes the embedding when embedding_service.is_available() (the call can
\* raise) or the zero vector, and calls store_document.  The frame records
\* the content read, the calls of generate_embedding and the vector
\* store_document received.
SyncSingleFile(p) ==
    /\ call.pc # "hash"
    /\ \E available \in BOOLEAN, fault \in {"none", "embed", "store"} :
         LET outcome == IF ReadOk(fs[p]) THEN fault ELSE "read"
             begun == [op |-> "sync", path |-> p, pc |-> "hash",
                       fault |-> outcome, error |-> NoError,
                       manifestBefore |-> manifestFiles,
                       storeBefore |-> store, repeat |-> FALSE,
                       content |-> IF ReadOk(fs[p]) THEN fs[p] ELSE "",
                       available |-> available,
                       embedCalls |-> IF available /\ outcome # "read"
                                      THEN 1 ELSE 0,
                       vector |-> IF outcome \in {"none", "store"}
                                  THEN VectorFor(available, fs[p]) ELSE <<>>]
         IN /\ (fault = "embed") => available
            /\ IF outcome = "none"
               THEN /\ store' = MapPut(store, p, fs[p])
                    /\ call' = begun
               ELSE /\ store' = store
                    /\ call' = [begun EXCEPT
                          !.pc = "raised",
                          !.error = WrapSyncError(WrapSyncError(
                                        RaisedBy(outcome)))]
    /\ UNCHANGED <<bgVars, fs, fsChanges, manifestFiles, status, tasks, nTasks,
                   loopOwner, reply, disk, mop, redis, worker>>

\* sync_single_file, second half: the file is hashed by a second read and,
\* "if file_hash:", the hash is written into the manifest.
SyncSingleFileHash ==
    LET p == call.path
        h == CalculateFileHash(fs[p])
    IN /\ call.pc = "hash"
       /\ IF h = EmptyHash
          THEN /\ call' = [call EXCEPT !.pc = "returned"]
               /\ UNCHANGED manifestFiles
          ELSE \E fault \in {"none", "manifest"} :
                 IF fault = "none"
                 THEN /\ manifestFiles' = MapPut(manifestFiles, p, h)
                      /\ call' = [call EXCEPT !.pc = "returned"]
                 ELSE /\ UNCHANGED manifestFiles
                      /\ call' = [call EXCEPT
                            !.pc = "raised", !.fault = "manifest",
                            !.error = WrapSyncError(RaisedBy("manifest"))]
       /\ UNCHANGED <<bgVars, fs, fsChanges, store, status, tasks, nTasks, loopOwner,
                      reply, disk, mop, redis, worker>>

\* remove_file(p): delete_document, then remove_file_from_manifest.
RemoveFile(p) ==
    /\ call.pc # "hash"
    /\ \E fault \in {"none", "delete", "manifest"} :
         LET begun == [op |-> "remove", path |-> p, pc |-> "returned",
                       fault |-> fault, error |-> NoError,
                       manifestBefore |-> manifestFiles,
                       storeBefore |-> store,
                       repeat |-> (/\ call.op = "remove" /\ call.path = p
                                   /\ call.pc = "returned")]
         IN IF fault = "delete"
            THEN /\ UNCHANGED <<store, manifestFiles>>
                 /\ call' = [begun EXCEPT
                       !.pc = "raised",
                       !.error = WrapSyncError(RaisedBy("delete"))]
            ELSE /\ store' = MapPop(store, p)
                 /\ IF fault = "manifest" \/ PopRaises(manifestFiles, p)
                    THEN /\ UNCHANGED manifestFiles
                         /\ call' = [begun EXCEPT
                               !.pc = "raised",
                               !.error = WrapSyncError(WrapManifestError(
                                   RaisedBy(IF fault = "manifest"
                                            THEN "manifest" ELSE "pop")))]
                    ELSE /\ manifestFiles' = MapPop(manifestFiles, p)
                         /\ call' = begun
    /\ UNCHANGED <<bgVars, fs, fsChanges, status, tasks, nTasks, loopOwner, reply,
                   disk, mop, redis, worker>>

\* The queue worker's engine: single-file operations one after another,
\* with the documents directory changing underneath them.
NextFile ==
    \/ \E p \in Paths, s \in FileStates : FsChange(p, s)
    \/ \E p \in Paths : SyncSingleFile(p)
    \/ SyncSingleFileHash
    \/ \E p \in Paths : RemoveFile(p)

SpecFile == Init /\ [][NextFile]_vars

\* C17: sync_single_file(path) upserts the file into the vector store and
\* then writes the file's fingerprint into the manifest; if the read, the
\* embedding or the store-write fails it raises a SyncError that wraps the
\* cause and the manifest is as it was before the call.
SingleFileSyncWritesStoreThenManifest ==
    /\ (call.op = "sync" /\ call.pc = "returned")
          => /\ call.path \in DOMAIN store
             /\ call.path \in DOMAIN manifestFiles
    /\ (call.op = "sync" /\ call.pc = "raised"
                         /\ call.fault \in {"read", "embed", "store"})
          => /\ call.error.type = "SyncError"
             /\ call.error.cause # ""
             /\ manifestFiles = call.manifestBefore

\* C18: remove_file(path) raises only when a collaborator fails; on a path
\* absent from the manifest and the store it returns and changes neither;
\* called a second time it leaves the manifest's files map and the store as
\* the first call left them.
RemoveFileIsIdempotent ==
    (call.op = "remove") =>
        /\ call.fault = "none" =>
              /\ call.pc = "returned"
              /\ manifestFiles = MapPop(call.manifestBefore, call.path)
              /\ store = MapPop(call.storeBefore, call.path)
        /\ (/\ call.fault = "none"
            /\ call.path \notin DOMAIN call.manifestBefore
            /\ call.path \notin DOMAIN call.storeBefore)
              => /\ manifestFiles = call.manifestBefore
                 /\ store = call.storeBefore
        /\ (call.repeat /\ call.fault = "none")
              => /\ manifestFiles = call.manifestBefore
                 /\ store = call.storeBefore

\* C18 witness: remove_file returned twice in a row for one path while the
\* manifest still holds another.
RemovedTwice ==
    /\ call.op = "remove" /\ call.repeat /\ call.pc = "returned"
    /\ manifestFiles # EmptyMap

\* ------------------------------------------------------- the manifest file
\* ManifestService on the bytes of .specmgr-manifest.json.  A text is the
\* sequence of tokens json.dump has written; a file holds a prefix of it
\* while it is being written.

Hashes == {"h1", "h2"}
AllFileMaps == UNION {[S -> Hashes] : S \in SUBSET Paths}

\* json.dump of the files object.
RECURSIVE FilesTextOf(_, _)
FilesTextOf(keys, m) ==
    IF keys = <<>> THEN ""
    ELSE Head(keys) \o ":" \o m[Head(keys)] \o "," \o FilesTextOf(Tail(keys), m)

FilesText(m) == "{" \o FilesTextOf(Keys(m), m) \o "}"

\* json.dump of last_updated: null or the ISO string of the n-th save.
StampText(n) == IF n = 0 THEN "null" ELSE "t" \o ToString(n)

\* json.dump(manifest, f) for a manifest with both keys.
JsonDump(doc) ==
    <<"{", "files:", FilesText(doc.files), "last_updated:",
      StampText(doc.last_updated), "}">>

IsManifestText(text) ==
    /\ Len(text) = 6
    /\ text[1] = "{" /\ text[2] = "files:" /\ text[4] = "last_updated:"
    /\ text[6] = "}"
    /\ \E m \in AllFileMaps : FilesText(m) = text[3]
    /\ \E n \in 0..MaxStamp : StampText(n) = text[5]

\* Texts that are valid JSON of another shape: {} and [].
ObjectNoKeys == <<"{", "}">>
EmptyArray == <<"[", "]">>
\* Text that is not JSON, and bytes that are not UTF-8.
Garbage == <<"not json">>
BadBytes == <<"0xFF">>

\* json.load on a text that decoded as UTF-8: ok is false for
\* JSONDecodeError.
JsonLoad(text) ==
    IF IsManifestText(text)
    THEN [ok |-> TRUE,
          value |-> [kind |-> "object", keys |-> {"files", "last_updated"},
                     files |-> CHOOSE m \in AllFileMaps :
                                   FilesText(m) = text[3],
                     last_updated |-> CHOOSE n \in 0..MaxStamp :
                                          StampText(n) = text[5]]]
    ELSE IF text = ObjectNoKeys
    THEN [ok |-> TRUE, value |-> [EmptyDoc EXCEPT !.keys = {}]]
    ELSE IF text = EmptyArray
    THEN [ok |-> TRUE, value |-> [EmptyDoc EXCEPT !.kind = "array",
                                                  !.keys = {}]]
    ELSE [ok |-> FALSE, value |-> EmptyDoc]

\* open(manifest_path, encoding="utf-8") and f.read() raise
\* UnicodeDecodeError.
DecodeFails(text) == \E n \in 1..Len(text) : text[n] = "0xFF"

\* load_manifest on the disk d: what it returns or raises and the disk it
\* leaves (a text that is not JSON is renamed to .corrupted).
LoadManifest(d) ==
    IF ~d.manifest.exists
    THEN [raised |-> FALSE, error |-> NoError, value |-> EmptyDoc, disk |-> d]
    ELSE IF ~d.readable
    THEN [raised |-> FALSE, error |-> NoError, value |-> EmptyDoc, disk |-> d]
    ELSE IF DecodeFails(d.manifest.text)
    THEN [raised |-> TRUE,
          error |-> WrapManifestError([type |-> "UnicodeDecodeError",
                                       cause |-> ""]),
          value |-> EmptyDoc, disk |-> d]
    ELSE IF ~JsonLoad(d.manifest.text).ok
    THEN [raised |-> FALSE, error |-> NoError, value |-> EmptyDoc,
          disk |-> [d EXCEPT !.corrupted = d.manifest,
                             !.manifest = AbsentFile]]
    ELSE IF JsonLoad(d.manifest.text).value.kind # "object"
    THEN [raised |-> TRUE,
          error |-> WrapManifestError([type |-> "AttributeError",
                                       cause |-> ""]),
          value |-> EmptyDoc, disk |-> d]
    ELSE [raised |-> FALSE, error |-> NoError,
          value |-> JsonLoad(d.manifest.text).value, disk |-> d]

\* (mutation: save_manifest opens the manifest path itself for writing)
SaveTargetInPlace == "manifest"

\* The file save_manifest opens for writing: manifest_path.with_suffix(".tmp").
SaveTarget == "tmp"

\* A save of this process is between open() and replace().
SaveInProgress == mop.pc \in {"open", "write"}

\* load_manifest called on its own (a process that has just started calls
\* it after a crash of the previous one).
LoadManifestCall ==
    LET L == LoadManifest(disk)
    IN /\ ~SaveInProgress
       /\ disk' = L.disk
       /\ mop' = [mop EXCEPT !.op = "load",
                             !.pc = IF L.raised THEN "raised" ELSE "returned",
                             !.path = "",
                             !.input = disk.manifest,
                             !.inputReadable = disk.readable,
                             !.result = L.value,
                             !.error = L.error,
                             !.afterCrash = (mop.pc = "crashed"),
                             !.changes = NoMop.changes]
       /\ UNCHANGED <<bgVars, fs, fsChanges, manifestFiles, store, status, tasks,
                      nTasks, loopOwner, reply, call, redis, worker>>

\* get_file_changes(c): load_manifest, manifest.get("files", {}), the diff.
GetFileChangesCall(c) ==
    LET L == LoadManifest(disk)
        files == IF "files" \in L.value.keys THEN L.value.files ELSE EmptyMap
    IN /\ ~SaveInProgress
       /\ disk' = L.disk
       /\ mop' = [NoMop EXCEPT
                     !.op = "diff",
                     !.pc = IF L.raised THEN "raised" ELSE "returned",
                     !.input = disk.manifest,
                     !.inputReadable = disk.readable,
                     !.result = L.value,
                     !.error = L.error,
                     !.changes = IF L.raised THEN @
                                 ELSE GetFileChanges(files, c)]
       /\ UNCHANGED <<bgVars, fs, fsChanges, manifestFiles, store, status, tasks,
                      nTasks, loopOwner, reply, call, redis, worker>>

\* update_file_in_manifest(p, h) (op = "update") and
\* remove_file_from_manifest(p) (op = "remove") up to the call of
\* save_manifest: load_manifest, manifest["files"], the change of the map
\* and last_updated = now.
ChangeManifest(op, p, h) ==
    LET L == LoadManifest(disk)
        begun == [NoMop EXCEPT !.op = op, !.path = p,
                               !.input = disk.manifest,
                               !.inputReadable = disk.readable]
    IN /\ ~SaveInProgress
       /\ disk' = L.disk
       /\ IF L.raised
          THEN mop' = [begun EXCEPT !.pc = "raised", !.error = L.error]
          ELSE IF "files" \notin L.value.keys
          THEN mop' = [begun EXCEPT
                         !.pc = "raised",
                         !.error = WrapManifestError(RaisedBy("pop"))]
          ELSE /\ L.value.last_updated < MaxStamp
               /\ mop' = [begun EXCEPT
                     !.pc = "open",
                     !.old = L.value,
                     !.doc = [L.value EXCEPT
                                !.files = IF op = "update" THEN MapPut(@, p, h)
                                          ELSE MapPop(@, p),
                                !.last_updated = @ + 1]]
       /\ UNCHANGED <<bgVars, fs, fsChanges, manifestFiles, store, status, tasks,
                      nTasks, loopOwner, reply, call, redis, worker>>

UpdateFileInManifest(p, h) == ChangeManifest("update", p, h)
RemoveFileFromManifest(p) == ChangeManifest("remove", p, "")

\* What leaves the caller of save_manifest when parent.mkdir, which stands
\* before the try of save_manifest, raises OSError: save_manifest lets it
\* through, the except clause of update_manifest, update_file_in_manifest
\* and remove_file_from_manifest wraps it.
MkdirError(op) ==
    IF op = "save" THEN RaisedBy("read")
    ELSE WrapManifestError(RaisedBy("read"))

\* save_manifest: parent.mkdir(parents=True, exist_ok=True), then
\* open(temp_path, "w") creates or truncates the file.
SaveOpen ==
    /\ mop.pc = "open"
    /\ \E fault \in {"none", "mkdir", "open"} :
         IF fault = "mkdir"
         THEN /\ mop' = [mop EXCEPT !.pc = "raised",
                                    !.error = MkdirError(mop.op)]
              /\ UNCHANGED disk
         ELSE IF fault = "open"
         THEN /\ mop' = [mop EXCEPT
                    !.pc = "raised",
                    !.error = WrapManifestError(RaisedBy("read"))]
              /\ UNCHANGED disk
         ELSE /\ mop' = [mop EXCEPT !.pc = "write"]
              /\ disk' = [disk EXCEPT ![SaveTarget] =
                                       [exists |-> TRUE, text |-> <<>>]]
    /\ UNCHANGED <<bgVars, fs, fsChanges, manifestFiles, store, status, tasks,
                   nTasks, loopOwner, reply, call, redis, worker>>

\* save_manifest: json.dump writes the next token, or the write fails.
SaveWrite ==
    LET text == disk[SaveTarget].text
        full == JsonDump(mop.doc)
    IN /\ mop.pc = "write"
       /\ Len(text) < Len(full)
       /\ \E fault \in BOOLEAN :
            IF fault
            THEN /\ mop' = [mop EXCEPT
                       !.pc = "raised",
                       !.error = WrapManifestError(RaisedBy("read"))]
                 /\ UNCHANGED disk
            ELSE /\ disk' = [disk EXCEPT ![SaveTarget].text =
                                          Append(text, full[Len(text) + 1])]
                 /\ UNCHANGED mop
       /\ UNCHANGED <<bgVars, fs, fsChanges, manifestFiles, store, status, tasks,
                      nTasks, loopOwner, reply, call, redis, worker>>

\* save_manifest: the file is closed and temp_path.replace(manifest_path)
\* renames it over the manifest, or raises OSError and renames nothing.
SaveReplace ==
    /\ mop.pc = "write"
    /\ Len(disk[SaveTarget].text) = Len(JsonDump(mop.doc))
    /\ \E fault \in BOOLEAN :
         IF fault
         THEN /\ mop' = [mop EXCEPT
                    !.pc = "raised",
                    !.error = WrapManifestError(RaisedBy("read"))]
              /\ UNCHANGED disk
         ELSE /\ disk' = [disk EXCEPT !.manifest = disk[SaveTarget],
                                      !.tmp = AbsentFile,
                                      !.readable = TRUE]
              /\ mop' = [mop EXCEPT !.pc = "returned"]
    /\ UNCHANGED <<bgVars, fs, fsChanges, manifestFiles, store, status, tasks,
                   nTasks, loopOwner, reply, call, redis, worker>>

\* The process dies inside save_manifest; the disk stays as it is.
Crash ==
    /\ SaveInProgress
    /\ mop' = [mop EXCEPT !.pc = "crashed"]
    /\ UNCHANGED <<bgVars, fs, fsChanges, manifestFiles, store, status, tasks,
                   nTasks, loopOwner, reply, call, disk, redis, worker>>

\* save_manifest(manifest) called with a dict of the caller that holds the
\* files map m: last_updated = now, then the steps of the save.  old is the
\* document a load would have returned before the call.
SaveManifest(m) ==
    LET L == LoadManifest(disk)
    IN /\ ~SaveInProgress
       /\ L.value.last_updated < MaxStamp
       /\ mop' = [NoMop EXCEPT
                     !.op = "save", !.pc = "open",
                     !.input = disk.manifest,
                     !.inputReadable = disk.readable,
                     !.old = L.value,
                     !.doc = [EmptyDoc EXCEPT
                                !.files = m,
                                !.last_updated = L.value.last_updated + 1]]
       /\ UNCHANGED <<bgVars, fs, fsChanges, manifestFiles, store, status, tasks,
                      nTasks, loopOwner, reply, call, disk, redis, worker>>

\* update_manifest(file_hashes) up to the call of save_manifest:
\* load_manifest, manifest["files"] = file_hashes (which adds the key to an
\* object without it) and last_updated = now.
UpdateManifest(file_hashes) ==
    LET L == LoadManifest(disk)
        begun == [NoMop EXCEPT !.op = "replace_all",
                               !.input = disk.manifest,
                               !.inputReadable = disk.readable]
    IN /\ ~SaveInProgress
       /\ disk' = L.disk
       /\ IF L.raised
          THEN mop' = [begun EXCEPT !.pc = "raised", !.error = L.error]
          ELSE /\ L.value.last_updated < MaxStamp
               /\ mop' = [begun EXCEPT
                     !.pc = "open",
                     !.old = L.value,
                     !.doc = [L.value EXCEPT
                                !.keys = {"files", "last_updated"},
                                !.files = file_hashes,
                                !.last_updated = @ + 1]]
       /\ UNCHANGED <<bgVars, fs, fsChanges, manifestFiles, store, status, tasks,
                      nTasks, loopOwner, reply, call, redis, worker>>

\* clear_manifest: nothing when the file does not exist; else
\* manifest_path.rename(backup_path); when that raises,
\* manifest_path.unlink(); when that raises too, the outer except raises
\* ManifestError.
ClearManifest ==
    LET begun == [NoMop EXCEPT !.op = "clear",
                               !.input = disk.manifest,
                               !.inputReadable = disk.readable]
    IN /\ ~SaveInProgress
       /\ IF ~disk.manifest.exists
          THEN /\ mop' = [begun EXCEPT !.pc = "returned"]
               /\ UNCHANGED disk
          ELSE \E fault \in {"none", "rename", "unlink"} :
                 CASE fault = "none" ->
                        /\ disk' = [disk EXCEPT !.backup = disk.manifest,
                                                !.manifest = AbsentFile,
                                                !.readable = TRUE]
                        /\ mop' = [begun EXCEPT !.pc = "returned"]
                   [] fault = "rename" ->
                        /\ disk' = [disk EXCEPT !.manifest = AbsentFile,
                                                !.readable = TRUE]
                        /\ mop' = [begun EXCEPT !.pc = "returned",
                                                !.path = "no_backup"]
                   [] OTHER ->
                        /\ UNCHANGED disk
                        /\ mop' = [begun EXCEPT
                              !.pc = "raised",
                              !.error = WrapManifestError(RaisedBy("read"))]
       /\ UNCHANGED <<bgVars, fs, fsChanges, manifestFiles, store, status, tasks,
                      nTasks, loopOwner, reply, call, redis, worker>>

\* Manifest files found at start: none, one written by save_manifest, or
\* one written or damaged by something else.
InitialManifestTexts ==
    {JsonDump([EmptyDoc EXCEPT !.files = m, !.last_updated = 1]) :
         m \in AllFileMaps}
    \cup {ObjectNoKeys, EmptyArray, Garbage, BadBytes, <<"{", "files:">>}

\* Hashes of a scan handed to get_file_changes.
ScanSamples == {m \in AllFileMaps : DOMAIN m \subseteq {"a.md"}}

InitManifest ==
    /\ fs = [p \in Paths |-> Absent]
    /\ fsChanges = 0
    /\ manifestFiles = EmptyMap
    /\ store = EmptyMap
    /\ status = [e \in Engines |-> IdleStatus]
    /\ tasks = [t \in Tasks |-> NoTask]
    /\ nTasks = 0
    /\ loopOwner = 0
    /\ reply = [asked |-> FALSE, status |-> IdleStatus,
                duringPass |-> FALSE, matchesPass |-> FALSE]
    /\ call = NoCall
    /\ \/ disk = NoDisk
       \/ \E text \in InitialManifestTexts, r \in BOOLEAN :
             disk = [NoDisk EXCEPT
                       !.manifest = [exists |-> TRUE, text |-> text],
                       !.readable = r]
    /\ mop = NoMop
    /\ redis = NoRedis
    /\ worker = NoWorker
    /\ watcher = NoWatcher
    /\ sched = NoSched
    /\ mcycle = Unused

NextManifest ==
    \/ LoadManifestCall
    \/ \E c \in ScanSamples : GetFileChangesCall(c)
    \/ \E p \in Paths, h \in Hashes : UpdateFileInManifest(p, h)
    \/ \E p \in Paths : RemoveFileFromManifest(p)
    \/ SaveOpen
    \/ SaveWrite
    \/ SaveReplace
    \/ Crash

SpecManifest == InitManifest /\ [][NextManifest]_vars

\* The operations that write or remove the manifest file, with the faults
\* of the file system at each of their steps.
NextManifestIO ==
    \/ \E m \in ScanSamples : SaveManifest(m)
    \/ \E m \in ScanSamples : UpdateManifest(m)
    \/ \E h \in Hashes : UpdateFileInManifest("a.md", h)
    \/ RemoveFileFromManifest("a.md")
    \/ SaveOpen
    \/ SaveWrite
    \/ SaveReplace
    \/ ClearManifest

SpecManifestIO == InitManifest /\ [][NextManifestIO]_vars

\* The manifest file an operation found is valid JSON of another shape than
\* {files, last_updated}.
WrongShapeInput ==
    /\ mop.input.exists /\ mop.inputReadable
    /\ ~DecodeFails(mop.input.text)
    /\ JsonLoad(mop.input.text).ok
    /\ ~IsManifestText(mop.input.text)

\* C12: manifest saves are atomic: at every point of a save, and after a
\* crash at any of them, load returns without raising either the complete
\* document that was there before the save or the complete new one.
SaveIsAtomic ==
    /\ (mop.pc \in {"open", "write", "crashed"})
          => /\ ~LoadManifest(disk).raised
             /\ LoadManifest(disk).value \in {mop.old, mop.doc}
    /\ (mop.op = "load" /\ mop.afterCrash)
          => /\ mop.pc = "returned"
             /\ mop.result \in {mop.old, mop.doc}

\* C12 witness: the process crashed with the temp file partly written, and
\* the load that followed returned the previous document, which has files.
LoadAfterCrashMidWrite ==
    /\ mop.op = "load" /\ mop.afterCrash
    /\ disk.tmp.exists
    /\ Len(disk.tmp.text) \in 1..5
    /\ mop.result = mop.old
    /\ mop.old.files # EmptyMap
    /\ mop.doc # mop.old

\* C19: load never raises; when the manifest file is absent, cannot be read
\* or decoded, or is not JSON, it returns the empty document.
LoadNeverRaises ==
    (mop.op = "load") =>
        /\ mop.pc = "returned"
        /\ (\/ ~mop.input.exists
            \/ ~mop.inputReadable
            \/ DecodeFails(mop.input.text)
            \/ ~JsonLoad(mop.input.text).ok)
              => mop.result = EmptyDoc

\* C20: when the manifest file holds valid JSON of the wrong shape, load
\* returns the empty document with a files map, and the diff, the update of
\* one entry and the removal of one entry succeed.
WrongShapeLoadsAsEmpty ==
    WrongShapeInput =>
        /\ mop.pc # "raised"
        /\ mop.op \in {"load", "diff"} =>
              (mop.result = EmptyDoc /\ "files" \in mop.result.keys)

\* An operation was left by an exception of one of the steps of
\* save_manifest (every fault of a save step is an OSError; load_manifest
\* absorbs its own).
SaveFailed ==
    /\ mop.op \in {"save", "update", "remove", "replace_all"}
    /\ mop.pc = "raised"
    /\ "OSError" \in {mop.error.type, mop.error.cause}

\* C21: a failure while saving the manifest, in save, update_one, remove_one
\* or replace_all, leaves the operation as ManifestError, and the document
\* persisted before the operation is still the one a load returns.
SaveFailureIsManifestError ==
    SaveFailed =>
        /\ mop.error.type = "ManifestError"
        /\ LoadManifest(disk).value = mop.old

\* C22: clear never raises and leaves the manifest file absent, so that a
\* load after it returns the empty document; this also when the rename to
\* the backup failed or there was no manifest file.
ClearNeverRaises ==
    (mop.op = "clear") =>
        /\ mop.pc = "returned"
        /\ ~disk.manifest.exists
        /\ ~LoadManifest(disk).raised
        /\ LoadManifest(disk).value = EmptyDoc

\* -------------------------------------------------------------- the queue
\* QueueService: add_sync_job, the worker loop and _handle_job_retry on the
\* Redis lists sync_jobs and failed_jobs.

\* self.max_retries
max_retries == 5

JobIds == 1..MaxJobs

\* json.dumps(job) and json.loads(job_json): numbers travel as digits.
JsonDumpsJob(job) ==
    [id |-> ToString(job.id), retry_count |-> ToString(job.retry_count),
     last_error |-> job.last_error]

JsonLoadsJob(text) ==
    [id |-> CHOOSE i \in JobIds : ToString(i) = text.id,
     retry_count |-> CHOOSE n \in 0..(max_retries + 1) :
                         ToString(n) = text.retry_count,
     last_error |-> text.last_error]

\* An entry of sync_jobs that is not JSON, and the texts json.loads
\* decodes.
NotJson == [id |-> "not json", retry_count |-> "", last_error |-> ""]
IsJobText(text) ==
    /\ \E i \in JobIds : ToString(i) = text.id
    /\ \E n \in 0..(max_retries + 1) : ToString(n) = text.retry_count

RECURSIVE Power(_, _)
Power(b, n) == IF n = 0 THEN 1 ELSE b * Power(b, n - 1)

\* delay = 2 ** job["retry_count"]
BackoffDelay(n) == Power(2, n)

\* (mutation: the comparison is strict)
CanRetryStrict(n) == n < max_retries

\* if job["retry_count"] <= self.max_retries
CanRetry(n) == n <= max_retries

\* add_sync_job: a job with retry_count 0 is pushed on sync_jobs.
AddSyncJob(i) ==
    /\ ~worker.log[i].added
    /\ \A j \in JobIds : j < i => worker.log[j].added
    /\ redis' = [redis EXCEPT !.sync_jobs =
                    Append(@, JsonDumpsJob([NoJob EXCEPT !.id = i]))]
    /\ worker' = [worker EXCEPT !.log[i].added = TRUE]
    /\ UNCHANGED <<bgVars, fs, fsChanges, manifestFiles, store, status, tasks,
                   nTasks, loopOwner, reply, call, disk, mop>>

\* (mutation: an exception inside the loop body ends the worker)
AfterWorkerErrorStops == "stopped"

\* Where the worker is after the except clauses of the loop body of
\* _start_worker have logged an error: at the next iteration of while True.
AfterWorkerError == "idle"

\* Something else than add_sync_job pushes an entry that is not JSON.
PushForeign ==
    /\ worker.foreign < MaxForeign
    /\ redis' = [redis EXCEPT !.sync_jobs = Append(@, NotJson)]
    /\ worker' = [worker EXCEPT !.foreign = @ + 1]
    /\ UNCHANGED <<bgVars, fs, fsChanges, manifestFiles, store, status, tasks,
                   nTasks, loopOwner, reply, call, disk, mop>>

\* The worker's blpop returns an entry: json.loads gives the job to
\* process, or raises JSONDecodeError, which is logged.
WorkerPop ==
    /\ worker.pc = "idle"
    /\ redis.sync_jobs # <<>>
    /\ redis' = [redis EXCEPT !.sync_jobs = Tail(@)]
    /\ IF IsJobText(Head(redis.sync_jobs))
       THEN worker' = [worker EXCEPT
                         !.pc = "process",
                         !.job = JsonLoadsJob(Head(redis.sync_jobs))]
       ELSE worker' = [worker EXCEPT !.pc = AfterWorkerError]
    /\ UNCHANGED <<bgVars, fs, fsChanges, manifestFiles, store, status, tasks,
                   nTasks, loopOwner, reply, call, disk, mop>>

\* _handle_job_retry for the job the worker holds: the failure is counted
\* and the backoff sleep begins, or the job is pushed on failed_jobs.
HandleJobRetry ==
    LET job == [worker.job EXCEPT !.retry_count = @ + 1,
                                  !.last_error = "error"]
        i == job.id
    IN IF CanRetry(job.retry_count)
       THEN /\ worker' = [worker EXCEPT
                  !.pc = "sleep",
                  !.job = job,
                  !.delay = BackoffDelay(job.retry_count),
                  !.log[i].failures = @ + 1,
                  !.log[i].delays =
                      Append(@, BackoffDelay(job.retry_count))]
            /\ UNCHANGED redis
       ELSE /\ worker' = [worker EXCEPT
                  !.pc = "idle", !.job = NoJob,
                  !.log[i].failures = @ + 1]
            /\ redis' = [redis EXCEPT !.failed_jobs =
                            Append(@, JsonDumpsJob(job))]

\* _process_job: the job is carried out, or it fails and _handle_job_retry
\* counts the failure and either starts the backoff sleep or pushes the
\* job on failed_jobs.
ProcessJob ==
    /\ worker.pc = "process"
    /\ \E failed \in BOOLEAN :
         IF ~failed
         THEN /\ worker' = [worker EXCEPT !.pc = "idle", !.job = NoJob]
              /\ UNCHANGED redis
         ELSE HandleJobRetry
    /\ UNCHANGED <<bgVars, fs, fsChanges, manifestFiles, store, status, tasks,
                   nTasks, loopOwner, reply, call, disk, mop>>

\* asyncio.sleep(delay) is over: the job is pushed back on sync_jobs.
RequeueAfterSleep ==
    /\ worker.pc = "sleep"
    /\ redis' = [redis EXCEPT !.sync_jobs =
                    Append(@, JsonDumpsJob(worker.job))]
    /\ worker' = [worker EXCEPT !.pc = "idle", !.job = NoJob, !.delay = 0]
    /\ UNCHANGED <<bgVars, fs, fsChanges, manifestFiles, store, status, tasks,
                   nTasks, loopOwner, reply, call, disk, mop>>

InitQueue ==
    /\ fs = [p \in Paths |-> Absent]
    /\ fsChanges = 0
    /\ manifestFiles = EmptyMap
    /\ store = EmptyMap
    /\ status = [e \in Engines |-> IdleStatus]
    /\ tasks = [t \in Tasks |-> NoTask]
    /\ nTasks = 0
    /\ loopOwner = 0
    /\ reply = [asked |-> FALSE, status |-> IdleStatus,
                duringPass |-> FALSE, matchesPass |-> FALSE]
    /\ call = NoCall
    /\ disk = NoDisk
    /\ mop = NoMop
    /\ redis = NoRedis
    /\ worker = NoWorker
    /\ watcher = NoWatcher
    /\ sched = NoSched
    /\ mcycle = Unused

NextQueue ==
    \/ \E i \in JobIds : AddSyncJob(i)
    \/ WorkerPop
    \/ ProcessJob
    \/ RequeueAfterSleep

SpecQueue == InitQueue /\ [][NextQueue]_vars

\* The worker loop on a queue that also receives entries that are not
\* JSON.  The loop is a task of the event loop that runs until it is
\* cancelled: each of its steps is taken once it can be.
NextWorker ==
    \/ \E i \in JobIds : AddSyncJob(i)
    \/ PushForeign
    \/ WorkerPop
    \/ ProcessJob
    \/ RequeueAfterSleep

SpecWorker ==
    /\ InitQueue /\ [][NextWorker]_vars
    /\ WF_vars(WorkerPop) /\ WF_vars(ProcessJob) /\ WF_vars(RequeueAfterSleep)

\* Positions of the entries of a Redis list that are jobs.
JobsAt(list) == {n \in 1..Len(list) : IsJobText(list[n])}

\* Ids of the jobs on a Redis list.
IdsOn(list) == {JsonLoadsJob(list[n]).id : n \in JobsAt(list)}

\* Occurrences of job i on a Redis list.
CountOn(list, i) ==
    Cardinality({n \in JobsAt(list) : JsonLoadsJob(list[n]).id = i})

RetryCountsOn(list) ==
    {JsonLoadsJob(list[n]).retry_count : n \in JobsAt(list)}

WorkerOutlivesJobFailures ==
    /\ [](worker.pc \in {"idle", "process", "sleep"})
    /\ \A i \in JobIds :
          (i \in IdsOn(redis.sync_jobs))
              ~> (worker.pc = "process" /\ worker.job.id = i)

\* C24 witness: job 2 is being processed after an entry that is not JSON
\* was dequeued and while job 1, which has failed, lies dead-lettered or
\* waits for a retry.
ProcessedAfterFailures ==
    /\ worker.pc = "process" /\ worker.job.id = 2
    /\ worker.foreign = 1 /\ NotJson \notin Range(redis.sync_jobs)
    /\ worker.log[1].failures >= 1
    /\ 1 \in IdsOn(redis.sync_jobs) \cup IdsOn(redis.failed_jobs)

\* -------------------------------------------------------- the file watcher
\* MarkdownFileHandler._handle_file_change, one task per event.

EventTypes == {"created", "modified", "deleted"}

\* file_key = f"{event_type}:{file_path}"
FileKey(event_type, file_path) == event_type \o ":" \o file_path

\* Handlers that have added their key and not yet discarded it.
OpenHandlers(key) ==
    {m \in 1..Len(watcher.events) :
        /\ FileKey(watcher.events[m].event_type, watcher.events[m].path) = key
        /\ watcher.events[m].pc \in {"adding", "sleeping"}}

\* (mutation: the key is never removed from processed_files)
DiscardKeeps(set, key) == set

\* self.processed_files.discard(file_key)
Discard(set, key) == set \ {key}

\* An event reaches _handle_file_change, which runs up to its first await:
\* it returns when the key is in processed_files, else adds the key and
\* calls add_sync_job.  window is the handler whose window the event fell
\* into, the event itself when no handler of its key is open.
HandleFileChange(event_type, file_path) ==
    LET key == FileKey(event_type, file_path)
        n == Len(watcher.events) + 1
        seen == key \in watcher.processed_files
        event == [event_type |-> event_type, path |-> file_path,
                  pc |-> IF seen THEN "returned" ELSE "adding",
                  window |-> IF OpenHandlers(key) = {} THEN n
                             ELSE CHOOSE m \in OpenHandlers(key) : TRUE,
                  called |-> ~seen, raised |-> FALSE, job |-> FALSE]
    IN /\ watcher.observing
       /\ n <= MaxEvents
       /\ watcher' = [watcher EXCEPT
                         !.processed_files = IF seen THEN @ ELSE @ \cup {key},
                         !.events = Append(@, event)]
       /\ UNCHANGED <<fs, fsChanges, manifestFiles, store, status, tasks,
                      nTasks, loopOwner, reply, call, disk, mop, redis,
                      worker, sched, mcycle>>

\* add_sync_job returns to handler n or raises: QueueConnectionError when
\* the QueueService has no redis_client, QueueError when rpush fails.  The
\* handler swallows the exception ("except Exception: pass") and goes to
\* asyncio.sleep(1.0) in its finally block.
AddSyncJobReturns(n) ==
    /\ n \in 1..Len(watcher.events)
    /\ watcher.events[n].pc = "adding"
    /\ \E fault \in BOOLEAN :
         LET raises == fault \/ ~watcher.connected
         IN /\ watcher' = [watcher EXCEPT
                              !.events[n].pc = "sleeping",
                              !.events[n].raised = raises,
                              !.events[n].job = ~raises]
            /\ redis' = IF raises THEN redis
                        ELSE [redis EXCEPT !.sync_jobs = Append(@,
                                 JsonDumpsJob([NoJob EXCEPT !.id = n]))]
    /\ UNCHANGED <<fs, fsChanges, manifestFiles, store, status, tasks,
                   nTasks, loopOwner, reply, call, disk, mop, worker, sched, mcycle>>

\* asyncio.sleep(1.0) of handler n is over: the key is discarded.
WindowCloses(n) ==
    /\ n \in 1..Len(watcher.events)
    /\ watcher.events[n].pc = "sleeping"
    /\ watcher' = [watcher EXCEPT
                      !.events[n].pc = "done",
                      !.processed_files =
                          Discard(@, FileKey(watcher.events[n].event_type,
                                             watcher.events[n].path))]
    /\ UNCHANGED <<fs, fsChanges, manifestFiles, store, status, tasks,
                   nTasks, loopOwner, reply, call, disk, mop, redis,
                   worker, sched, mcycle>>

\* A handler that was given a started QueueService.
InitWatcher ==
    /\ fs = [p \in Paths |-> Absent]
    /\ fsChanges = 0
    /\ manifestFiles = EmptyMap
    /\ store = EmptyMap
    /\ status = [e \in Engines |-> IdleStatus]
    /\ tasks = [t \in Tasks |-> NoTask]
    /\ nTasks = 0
    /\ loopOwner = 0
    /\ reply = [asked |-> FALSE, status |-> IdleStatus,
                duringPass |-> FALSE, matchesPass |-> FALSE]
    /\ call = NoCall
    /\ disk = NoDisk
    /\ mop = NoMop
    /\ redis = NoRedis
    /\ worker = NoWorker
    /\ watcher = [NoWatcher EXCEPT !.observing = TRUE, !.connected = TRUE]
    /\ sched = NoSched
    /\ mcycle = Unused

NextWatcher ==
    \/ \E event_type \in EventTypes, file_path \in Paths :
          HandleFileChange(event_type, file_path)
    \/ \E n \in 1..MaxEvents : AddSyncJobReturns(n)
    \/ \E n \in 1..MaxEvents : WindowCloses(n)

SpecWatcher == InitWatcher /\ [][NextWatcher]_vars

\* Jobs on sync_jobs that handler n pushed.
JobsOf(n) ==
    Cardinality({k \in 1..Len(redis.sync_jobs) :
                    redis.sync_jobs[k].id = ToString(n)})

\* Handler n has come back from add_sync_job.
PastAdd(n) == watcher.events[n].pc \in {"sleeping", "done"}

InPass == sched.pc = "pass" /\ Active(sched.task)

\* The loop is suspended in asyncio.sleep(30).
Sleeping == sched.pc = "sleep" \/ (sched.pc = "pass" /\ ~Active(sched.task))

\* (mutation: an exception of the triggered pass leaves the loop)
AfterPassErrorEnds == "ended"

\* Where the loop is after "except Exception as e: logger.error(...)" around
\* the call of execute_bulk_sync: at the next iteration, in asyncio.sleep.
AfterPassError == "sleep"

\* start(): running = True and the loop task is created.
SchedStart ==
    /\ ~sched.running /\ sched.pc = "none"
    /\ sched' = [sched EXCEPT !.running = TRUE, !.pc = "sleep"]
    /\ UNCHANGED <<fs, fsChanges, manifestFiles, store, status, tasks,
                   nTasks, loopOwner, reply, callVars>>

\* asyncio.sleep(30) is over and the engine reports running: the tick logs
\* and triggers nothing.
TickSkips ==
    /\ sched.running /\ Sleeping /\ loopOwner = 0
    /\ Len(sched.ticks) < MaxTicks
    /\ GetSyncStatus(status[SharedEngine]).is_running
    /\ sched' = [sched EXCEPT !.pc = "sleep",
                              !.ticks = Append(@, "skipped")]
    /\ UNCHANGED <<fs, fsChanges, manifestFiles, store, status, tasks,
                   nTasks, loopOwner, reply, callVars>>

\* asyncio.sleep(30) is over and the engine reports idle: the tick calls
\* execute_bulk_sync(force=False), which raises (SyncInProgressError, or
\* the failure of initialize_collection or of the scan) or begins the pass.
TickTriggers ==
    /\ sched.running /\ Sleeping
    /\ Len(sched.ticks) < MaxTicks
    /\ ~GetSyncStatus(status[SharedEngine]).is_running
    /\ ExecuteBulkSync(nTasks + 1, SharedEngine, FALSE)
    /\ sched' = [sched EXCEPT
                    !.pc = IF tasks'[nTasks'].pc = "run" THEN "pass"
                           ELSE AfterPassError,
                    !.task = nTasks',
                    !.ticks = Append(@, tasks'[nTasks'].pc)]

\* stop(): running = False, task.cancel() and await task.  The loop is
\* suspended in asyncio.sleep(30), or in the asyncio.sleep(0.05) of the pass
\* it triggered; CancelledError leaves the pass through its finally block
\* and the loop through "except asyncio.CancelledError: break".
SchedStop ==
    /\ sched.running /\ loopOwner = 0
    /\ sched' = [sched EXCEPT !.running = FALSE, !.pc = "ended"]
    /\ IF InPass
       THEN /\ tasks' = [tasks EXCEPT ![sched.task] =
                 [NoTask EXCEPT !.pc = "cancelled",
                                !.engine = tasks[sched.task].engine,
                                !.force = tasks[sched.task].force]]
            /\ status' = [status EXCEPT ![SharedEngine] = FinallyStatus(@)]
       ELSE UNCHANGED <<tasks, status>>
    /\ UNCHANGED <<fs, fsChanges, manifestFiles, store, nTasks, loopOwner,
                   reply, callVars>>

NextScheduler ==
    \/ SchedStart
    \/ TickSkips
    \/ TickTriggers
    \/ SchedStop
    \/ \E force \in BOOLEAN : DirectBulkSync(force)
    \/ \E t \in Tasks : DeleteStep(t)
    \/ \E t \in Tasks : SyncStep(t)
    \/ \E t \in Tasks : StatStep(t)
    \/ \E t \in Tasks : Finish(t)

SpecScheduler == Init /\ [][NextScheduler]_vars

\* C26: a triggered pass never ends the scheduler loop: whatever
\* execute_bulk_sync raises, the loop is back in its sleep with the tick
\* recorded and takes its later ticks; the loop ends only by stop(); a tick
\* that finds the engine running triggers nothing.
SchedulerSurvivesPasses ==
    /\ [](sched.running => (Sleeping \/ InPass))
    /\ [](sched.pc = "ended" => ~sched.running)
    /\ [][(Len(sched'.ticks) > Len(sched.ticks)) =>
            LET outcome == sched'.ticks[Len(sched'.ticks)]
            IN /\ sched'.running
               /\ outcome \in {"skipped", "rejected", "raised", "run"}
               /\ (outcome \in {"rejected", "raised"}) =>
                     (sched'.pc = "sleep" /\ nTasks' = nTasks + 1)
               /\ (outcome = "skipped") <=> status[SharedEngine].is_running
               /\ (outcome = "skipped") =>
                     (nTasks' = nTasks /\ tasks' = tasks /\ status' = status)
          ]_vars

\* C26 witness: the pass of the first tick raised, and the loop has taken a
\* second tick, whose pass is in flight.
TickAfterRaisedPass ==
    /\ Len(sched.ticks) >= 2
    /\ sched.ticks[1] = "raised" /\ sched.ticks[2] = "run"
    /\ InPass

\* C27: stop() ends the loop from its sleep and from inside a triggered
\* pass; once stopped the loop triggers nothing more; no pass triggered by
\* the scheduler is in flight, and the engine reports running only while
\* a pass of another caller is in flight (a pass cancelled in flight has
\* reset is_running).
StopIsGraceful ==
    /\ [](sched.pc = "ended" =>
            /\ ~sched.running
            /\ ~InPass
            /\ status[SharedEngine].is_running =>
                  \E t \in Tasks \ {sched.task} :
                      Active(t) /\ tasks[t].engine = SharedEngine)
    /\ [][sched.pc = "ended" => sched' = sched]_vars
    /\ [][(sched.running /\ ~sched'.running) =>
            /\ sched'.pc = "ended"
            /\ InPass => /\ tasks'[sched.task].pc = "cancelled"
                         /\ ~status'[SharedEngine].is_running]_vars

\* C27 witness: stop() has cancelled a pass in flight that had processed a
\* file, and the engine is idle.
StoppedInsidePass ==
    /\ sched.pc = "ended"
    /\ sched.task # 0 /\ tasks[sched.task].pc = "cancelled"
    /\ sched.ticks[Len(sched.ticks)] = "run"
    /\ ~status[SharedEngine].is_running
    /\ status[SharedEngine].current >= 1

\* ------------------------------------------------- the application as wired
\* lifespan() of main.py: FileWatcherService() and its start(), then a
\* second QueueService() and its start(), which connects to Redis and
\* creates the worker task.

\* Whether start() was called on the QueueService that
\* FileWatcherService.__init__ constructs for its handler: nothing calls it,
\* so its redis_client stays None.
WatcherQueueStarted == FALSE

\* The startup half of lifespan().
LifespanStartup ==
    /\ ~watcher.observing
    /\ watcher' = [watcher EXCEPT !.observing = TRUE,
                                  !.connected = WatcherQueueStarted]
    /\ UNCHANGED <<fs, fsChanges, manifestFiles, store, status, tasks,
                   nTasks, loopOwner, reply, call, disk, mop, redis,
                   worker, sched, mcycle>>

\* The worker of the second QueueService blocks in blpop on sync_jobs; it
\* takes a step only when the list has an entry.
NextWired ==
    \/ LifespanStartup
    \/ \E event_type \in EventTypes, file_path \in Paths :
          HandleFileChange(event_type, file_path)
    \/ \E n \in 1..MaxEvents : AddSyncJobReturns(n)
    \/ \E n \in 1..MaxEvents : WindowCloses(n)

SpecWired == InitQueue /\ [][NextWired]_vars

\* C28: in the application as wired, every Markdown file event that passes
\* the debounce has, once add_sync_job is over, exactly one job on the
\* list sync_jobs the worker consumes (from where it is dispatched).
EveryEventIsQueued ==
    \A n \in 1..Len(watcher.events) :
        (watcher.events[n].called /\ PastAdd(n)) =>
            (watcher.events[n].job /\ JobsOf(n) = 1)

\* ----------------------------------------------------- the vector of a file
\* store_document was called by the sync operation in call.
Upserted == call.op = "sync" /\ call.fault \in {"none", "store", "manifest"}

\* C29: when the embedding capability reports unavailable, sync_file never
\* calls generate_embedding and upserts a vector of vector_size zeros; when
\* it reports available, it upserts the vector generate_embedding returned
\* for the content of the file.
ZeroVectorWhenUnavailable ==
    (call.op = "sync") =>
        /\ ~call.available =>
              /\ call.embedCalls = 0
              /\ Upserted =>
                    /\ Len(call.vector) = VectorSize
                    /\ \A i \in 1..VectorSize : call.vector[i] = 0
        /\ (call.available /\ Upserted) =>
              /\ call.embedCalls = 1
              /\ call.vector = GenerateEmbedding(call.content)
              /\ Len(call.vector) = VectorSize

\* A file was synchronised to the end while the embedding service was
\* unavailable: store_document received the zero vector.
SyncedWithoutEmbedding ==
    /\ call.op = "sync"
    /\ call.pc = "returned"
    /\ call.fault = "none"
    /\ ~call.available
    /\ call.content = Text2
    /\ call.vector = GetZeroVector

\* ------------------------------------------------ deletions before syncs
\* The pass in frame T has read or upserted one of its files to sync.
SyncBegun(T) ==
    \E j \in 1..Len(T.files_to_sync) :
        \/ T.files_to_sync[j] \in T.attempted
        \/ T.upsertCalls[T.files_to_sync[j]] > 0

\* Every deletion of the pass in frame T has been processed: delete_document
\* was called for the path and the iteration is over.
DeletionsOver(T) ==
    /\ T.k >= Len(T.files_to_delete)
    /\ \A i \in 1..Len(T.files_to_delete) :
          /\ T.files_to_delete[i] \in T.attempted
          /\ T.deleteCalls[T.files_to_delete[i]] = 1

\* A step of the deletion loop of pass t.
DeletesNow(t) ==
    /\ tasks[t].pc = "run"
    /\ tasks'[t].pc = "run"
    /\ tasks'[t].deleteCalls # tasks[t].deleteCalls

\* C30: within one bulk pass every deletion is fully processed (vector-store
\* delete and manifest removal attempted) before the first add/modify file
\* is read or upserted, and no upsert of the pass precedes a delete of the
\* same pass.
DeletionsBeforeSyncs ==
    /\ [](\A t \in Tasks :
            (tasks[t].pc \in {"run", "stat"} /\ SyncBegun(tasks[t]))
                => DeletionsOver(tasks[t]))
    /\ [][\A t \in Tasks :
            DeletesNow(t) => (~SyncBegun(tasks[t]) /\ ~SyncBegun(tasks'[t]))]_vars

\* A pass that had a path to delete and a file to sync has been through
\* both loops.
SyncedAfterDeleting ==
    \E t \in Tasks :
        /\ tasks[t].pc = "run"
        /\ Len(tasks[t].files_to_delete) > 0
        /\ Len(tasks[t].files_to_sync) > 0
        /\ tasks[t].k = Len(tasks[t].files_to_delete)
                          + Len(tasks[t].files_to_sync)
        /\ tasks[t].upsertCalls[tasks[t].files_to_sync[1]] = 1
        /\ tasks[t].deleteCalls[tasks[t].files_to_delete[1]] = 1

\* ------------------------------------------- known-good manifest entries
\* The manifest entry of p ("" when it has none).
Entry(m, p) == IF p \in DOMAIN m THEN m[p] ELSE EmptyHash

\* Failures of sync_file: the file was not upserted.
NotUpserted == {"read", "embed", "store"}

\* This step writes a fingerprint of p into the manifest.
FingerprintWritten(p) ==
    /\ p \in DOMAIN manifestFiles'
    /\ Entry(manifestFiles', p) # Entry(manifestFiles, p)

\* This step is the iteration of pass t for p, and store_document returned.
UpsertedNow(t, p) ==
    /\ tasks[t].pc = "run"
    /\ SyncIndex(tasks[t]) \in 1..Len(tasks[t].files_to_sync)
    /\ tasks[t].files_to_sync[SyncIndex(tasks[t])] = p
    /\ tasks'[t].upsertCalls[p] = tasks[t].upsertCalls[p] + 1
    /\ p \in DOMAIN store'
    /\ store'[p] = fs[p]
    /\ <<p, "store">> \notin tasks'[t].failures

\* This step is an iteration of pass t in which sync_file failed for p.
SyncFileFailedNow(t, p) ==
    \E f \in tasks'[t].failures \ tasks[t].failures :
        f[1] = p /\ f[2] \in NotUpserted

\* A fingerprint enters the manifest only in the iteration that upserted the
\* path, and a failure of sync_file leaves the entry as it was.
OnlyAfterUpsert ==
    \A p \in Paths :
        /\ FingerprintWritten(p) =>
              \E t \in Tasks :
                  /\ UpsertedNow(t, p)
                  /\ manifestFiles'[p] = tasks[t].current_files[p]
        /\ \A t \in Tasks :
              SyncFileFailedNow(t, p) =>
                  /\ Entry(manifestFiles', p) = Entry(manifestFiles, p)
                  /\ store' = store

\* A differential pass beginning now would select p.
SelectedNow(p) ==
    p \in Range(FilesToSync(FALSE, manifestFiles, GetCurrentFileHashes(fs)))

\* At the end of pass t the files that were not upserted, and have not
\* changed since the scan, are selected by the next differential pass.
FailedAreSelectedAgain(t) ==
    (AtEnd(t) /\ ~tasks[t].fsChanged) =>
        \A f \in tasks[t].failures :
            f[2] \in NotUpserted => SelectedNow(f[1])

\* C31 as stated: in a bulk pass a path's fingerprint is written to the
\* manifest only after that path's upsert succeeded; when a file's read,
\* embedding or upsert fails its manifest entry is unchanged, so the next
\* differential pass selects that file again.
ManifestIsKnownGood ==
    /\ [][OnlyAfterUpsert]_vars
    /\ [](\A t \in Tasks : FailedAreSelectedAgain(t))

\* C31 amended: the same, where the failed file is selected again by the
\* next differential pass when the failing pass was differential itself; a
\* forced pass also lists files whose manifest entry is already current.
ManifestIsKnownGoodForDiff ==
    /\ [][OnlyAfterUpsert]_vars
    /\ [](\A t \in Tasks : ~tasks[t].force => FailedAreSelectedAgain(t))

\* A differential pass is over in which a file could not be upserted, and
\* the next differential pass would select the file again.
FailedFileStillPending ==
    \E t \in Tasks : \E f \in tasks[t].failures :
        /\ AtEnd(t)
        /\ ~tasks[t].force
        /\ ~tasks[t].fsChanged
        /\ f[2] \in NotUpserted
        /\ SelectedNow(f[1])
        /\ Entry(manifestFiles, f[1]) # tasks[t].current_files[f[1]]

\* ------------------------------------- the fingerprint and the content
\* C32: the manifest never records for a path a fingerprint that differs
\* from the fingerprint of the content last upserted for that path, even
\* when the file is modified while it is being synced.  Here: when
\* sync_single_file has returned after writing the fingerprint, the
\* fingerprint is that of the document in the vector store.
FingerprintIsOfStoredContent ==
    (/\ call.op = "sync"
     /\ call.pc = "returned"
     /\ call.path \in DOMAIN manifestFiles
     /\ call.path \in DOMAIN store
     /\ Entry(manifestFiles, call.path) # Entry(call.manifestBefore, call.path))
        => manifestFiles[call.path] = CalculateFileHash(store[call.path])

\* ------------------------------------------------ the shared manifest
\* The bulk pass and the queue worker's engine each hold a ManifestService
\* of their own on the same file; both run as coroutines of one event loop.
Clients == {"pass", "worker"}

\* pc "loaded": load_manifest has returned and save_manifest has not yet
\* been called.  op, path and hash stay after the cycle as its record.
NoCycle == [pc |-> "idle", op |-> "none", path |-> "", hash |-> EmptyHash,
            loaded |-> EmptyMap, ok |-> FALSE]

\* manifest["files"][p] = h, or manifest["files"].pop(p, None).
Change(m, op, p, h) == IF op = "update" THEN MapPut(m, p, h) ELSE MapPop(m, p)

\* The coroutine of client c may take its next step: the event loop is
\* free, or c is inside a slice.
MayRun(c) == mcycle.slice \in {"none", c}

\* (mutation: load_manifest suspends, the event loop is free between the
\* load and the save)
SliceAfterLoadFree(c) == "none"

\* load_manifest and save_manifest await nothing: "await
\* self.load_manifest()" returns without giving the event loop to another
\* coroutine, so the client still holds the loop when it saves.
SliceAfterLoad(c) == c

\* update_file_in_manifest(p, h) or remove_file_from_manifest(p) by client
\* c, up to the return of load_manifest.
LoadForChange(c, op, p, h) ==
    /\ MayRun(c)
    /\ mcycle.of[c].pc = "idle"
    /\ mcycle.n < MaxCycles
    /\ mcycle' = [mcycle EXCEPT
          !.slice = SliceAfterLoad(c),
          !.n = @ + 1,
          !.of[c] = [pc |-> "loaded", op |-> op, path |-> p, hash |-> h,
                     loaded |-> manifestFiles, ok |-> FALSE]]
    /\ UNCHANGED <<fs, fsChanges, manifestFiles, store, status, tasks, nTasks,
                   loopOwner, reply, call, disk, mop, redis, worker, watcher,
                   sched>>

\* The rest of the cycle: the change is made in the loaded dict and
\* save_manifest writes the dict (or raises ManifestError); the caller then
\* returns to its own awaits.  serial is the manifest as the completed
\* mutations give it, one after the other.
SaveChange(c) ==
    LET f == mcycle.of[c]
    IN /\ MayRun(c)
       /\ f.pc = "loaded"
       /\ \E fault \in BOOLEAN :
            /\ manifestFiles' = IF fault THEN manifestFiles
                                ELSE Change(f.loaded, f.op, f.path, f.hash)
            /\ mcycle' = [mcycle EXCEPT
                  !.slice = "none",
                  !.serial = IF fault THEN @
                             ELSE Change(@, f.op, f.path, f.hash),
                  !.of[c] = [f EXCEPT !.pc = "idle", !.ok = ~fault,
                                      !.loaded = EmptyMap]]
       /\ UNCHANGED <<fs, fsChanges, store, status, tasks, nTasks, loopOwner,
                      reply, call, disk, mop, redis, worker, watcher, sched>>

InitShared ==
    /\ fs = [p \in Paths |-> Text1]
    /\ fsChanges = 0
    /\ manifestFiles \in {EmptyMap, GetCurrentFileHashes([p \in Paths |-> Text1])}
    /\ store = EmptyMap
    /\ status = [e \in Engines |-> IdleStatus]
    /\ tasks = [t \in Tasks |-> NoTask]
    /\ nTasks = 0
    /\ loopOwner = 0
    /\ reply = [asked |-> FALSE, status |-> IdleStatus,
                duringPass |-> FALSE, matchesPass |-> FALSE]
    /\ call = NoCall
    /\ disk = Unused
    /\ mop = Unused
    /\ redis = Unused
    /\ worker = Unused
    /\ watcher = Unused
    /\ sched = NoSched
    /\ mcycle = [slice |-> "none", n |-> 0, serial |-> manifestFiles,
                 of |-> [c \in Clients |-> NoCycle]]

\* The pass writes the fingerprints of its scan and removes vanished paths;
\* the worker writes the fingerprint it computed and removes the path of a
\* "deleted" job.
NextShared ==
    \/ \E c \in Clients, p \in Paths, h \in {Sha1Hex[Text1], Sha1Hex[Text2]} :
          LoadForChange(c, "update", p, h)
    \/ \E c \in Clients, p \in Paths : LoadForChange(c, "remove", p, EmptyHash)
    \/ \E c \in Clients : SaveChange(c)

SpecShared == InitShared /\ [][NextShared]_vars

\* C33: manifest mutations issued concurrently by a bulk pass and by the
\* queue worker never lose an update: a save starts from the manifest as it
\* is on disk at that moment, and whenever no cycle is in progress the
\* manifest is what the completed mutations give one after the other.
NoLostUpdate ==
    /\ \A c \in Clients :
          mcycle.of[c].pc = "loaded" => mcycle.of[c].loaded = manifestFiles
    /\ (\A c \in Clients : mcycle.of[c].pc = "idle")
          => manifestFiles = mcycle.serial

\* Both clients have completed a mutation, of different paths, and the
\* manifest shows both.
BothMutationsReflected ==
    /\ mcycle.of["pass"].pc = "idle"
    /\ mcycle.of["pass"].ok
    /\ mcycle.of["pass"].op = "update"
    /\ mcycle.of["pass"].path = "a.md"
    /\ mcycle.of["worker"].pc = "idle"
    /\ mcycle.of["worker"].ok
    /\ mcycle.of["worker"].op = "remove"
    /\ mcycle.of["worker"].path = "b.md"
    /\ mcycle.n = 2
    /\ Entry(manifestFiles, "a.md") = mcycle.of["pass"].hash
    /\ "b.md" \notin DOMAIN manifestFiles

\* ------------------------------------------------ the jobs of the worker
\* What a job carries besides its id and retry_count: its type and its
\* data (event_type, file_path; "" is a missing key).  add_sync_job writes
\* type "sync" and the watcher a known event type; other entries come from
\* other producers.
JobSamples ==
    {[type |-> "sync", event_type |-> "created", file_path |-> "a.md"],
     [type |-> "sync", event_type |-> "modified", file_path |-> "a.md"],
     [type |-> "sync", event_type |-> "deleted", file_path |-> "a.md"],
     [type |-> "index", event_type |-> "created", file_path |-> "a.md"],
     [type |-> "sync", event_type |-> "moved", file_path |-> "a.md"],
     [type |-> "sync", event_type |-> "", file_path |-> "a.md"],
     [type |-> "sync", event_type |-> "created", file_path |-> ""]}

\* (mutation: an unknown event type is treated as a change of the file)
DispatchLax(d) ==
    IF d.type # "sync" \/ d.event_type = "" \/ d.file_path = ""
    THEN "invalid"
    ELSE IF d.event_type = "deleted" THEN "remove_file"
    ELSE "sync_single_file"

\* _process_job and _process_sync_job: the SyncService method a job is
\* handed to, "invalid" when JobProcessingError is raised before any.
Dispatch(d) ==
    IF d.type # "sync" \/ d.event_type = "" \/ d.file_path = ""
    THEN "invalid"
    ELSE IF d.event_type \in {"created", "modified"} THEN "sync_single_file"
    ELSE IF d.event_type = "deleted" THEN "remove_file"
    ELSE "invalid"

\* The worker processes the job it holds: the job is dispatched and the
\* method returns, or an exception (of the method, or JobProcessingError)
\* reaches _process_job, which calls _handle_job_retry.  call is the last
\* call the worker made on a SyncService.
ProcessSyncJob ==
    LET i == worker.job.id
        d == worker.log[i].data
        p == d.file_path
        target == Dispatch(d)
    IN /\ worker.pc = "process"
       /\ \E raised \in BOOLEAN :
            /\ (target = "invalid") => raised
            /\ call' = IF target = "invalid" THEN call
                       ELSE [op |-> target, path |-> p, job |-> i,
                             pc |-> IF raised THEN "raised" ELSE "returned"]
            /\ IF raised
               THEN /\ HandleJobRetry
                    /\ UNCHANGED <<store, manifestFiles>>
               ELSE /\ worker' = [worker EXCEPT !.pc = "idle", !.job = NoJob,
                                                !.log[i].done = TRUE]
                    /\ UNCHANGED redis
                    /\ IF target = "remove_file"
                       THEN /\ store' = MapPop(store, p)
                            /\ manifestFiles' = MapPop(manifestFiles, p)
                       ELSE /\ store' = MapPut(store, p, fs[p])
                            /\ manifestFiles' =
                                 MapPut(manifestFiles, p, CalculateFileHash(fs[p]))
       /\ UNCHANGED <<bgVars, fs, fsChanges, status, tasks, nTasks, loopOwner,
                      reply, disk, mop>>

\* The rpush that ends the backoff raises (Redis is down or the client was
\* closed): _handle_job_retry logs "Failed to requeue job for retry" and
\* returns.
RequeuePushFails ==
    /\ worker.pc = "sleep"
    /\ worker' = [worker EXCEPT !.pc = "idle", !.job = NoJob, !.delay = 0]
    /\ UNCHANGED <<bgVars, fs, fsChanges, manifestFiles, store, status, tasks,
                   nTasks, loopOwner, reply, call, disk, mop, redis>>

\* The worker task is cancelled (the event loop shuts down) while it is in
\* asyncio.sleep(delay): CancelledError leaves _handle_job_retry,
\* _process_job and the loop, none of which catches it.
CancelledInSleep ==
    /\ worker.pc = "sleep"
    /\ worker' = [worker EXCEPT !.pc = "cancelled", !.job = NoJob, !.delay = 0]
    /\ UNCHANGED <<bgVars, fs, fsChanges, manifestFiles, store, status, tasks,
                   nTasks, loopOwner, reply, call, disk, mop, redis>>

\* a.md exists and is in the vector store and the manifest; the jobs are
\* about to be added in the order of their ids.
InitJobs ==
    /\ fs = [p \in Paths |-> IF p = "a.md" THEN Text1 ELSE Absent]
    /\ fsChanges = 0
    /\ manifestFiles = GetCurrentFileHashes(fs)
    /\ store = [p \in DOMAIN manifestFiles |-> fs[p]]
    /\ status = [e \in Engines |-> IdleStatus]
    /\ tasks = [t \in Tasks |-> NoTask]
    /\ nTasks = 0
    /\ loopOwner = 0
    /\ reply = [asked |-> FALSE, status |-> IdleStatus,
                duringPass |-> FALSE, matchesPass |-> FALSE]
    /\ call = [op |-> "none", path |-> "", job |-> 0, pc |-> "idle"]
    /\ disk = Unused
    /\ mop = Unused
    /\ redis = NoRedis
    /\ \E data \in [JobIds -> JobSamples] :
         worker = [NoWorker EXCEPT !.log =
                     [i \in JobIds |->
                         [added |-> FALSE, failures |-> 0, delays |-> <<>>,
                          data |-> data[i], done |-> FALSE]]]
    /\ watcher = Unused
    /\ sched = NoSched
    /\ mcycle = Unused

NextJobs ==
    \/ \E i \in JobIds : AddSyncJob(i)
    \/ WorkerPop
    \/ ProcessSyncJob
    \/ RequeueAfterSleep
    \/ RequeuePushFails
    \/ CancelledInSleep

SpecJobs == InitJobs /\ [][NextJobs]_vars

\* The worker holds job i.
Holds(i) == worker.pc \in {"process", "sleep"} /\ worker.job.id = i

\* C34: a job that was dequeued and whose processing failed is never
\* lost: once failure handling has finished it is back on the main queue
\* or on the dead-letter queue.
FailedJobIsNeverLost ==
    [][\A i \in JobIds :
         (Holds(i) /\ ~Holds(i)' /\ ~worker'.log[i].done)
            => i \in IdsOn(redis'.sync_jobs) \cup IdsOn(redis'.failed_jobs)]_vars

\* This step is the worker carrying out job i.
CarriesOut(i) ==
    /\ worker.pc = "process"
    /\ worker.job.id = i
    /\ ~worker.log[i].done
    /\ worker'.log[i].done

\* C35: for one path, queued events take effect in the order they
\* occurred even when a job is retried: a "deleted" job is never applied
\* after a later "created" or "modified" job for the same path has stored
\* the document.
EventsApplyInOrder ==
    [][\A i, j \in JobIds :
         (/\ CarriesOut(i)
          /\ Dispatch(worker.log[i].data) = "remove_file"
          /\ i < j
          /\ Dispatch(worker.log[j].data) = "sync_single_file"
          /\ worker.log[j].data.file_path = worker.log[i].data.file_path)
            => ~worker.log[j].done]_vars

\* The job data d names an operation of the engine.
Dispatchable(d) ==
    /\ d.type = "sync"
    /\ d.event_type \in {"created", "modified", "deleted"}
    /\ d.file_path # ""

\* This step is the worker processing the job i it holds.
Processes(i) ==
    /\ worker.pc = "process"
    /\ worker.job.id = i
    /\ worker'.pc # "process"

\* C39: a job is dispatched to the engine only when its type is sync, its
\* event_type is created, modified or deleted and its file_path is present:
\* created/modified go to sync_single_file and deleted to remove_file; any
\* other job is handled as a failure on the retry and dead-letter path, and
\* a job that succeeds is neither re-enqueued nor dead-lettered.
JobsAreDispatchedByKind ==
    [][\A i \in JobIds :
         Processes(i) =>
            LET d == worker.log[i].data
                failedNow == worker'.log[i].failures = worker.log[i].failures + 1
                retried == \/ worker'.pc = "sleep" /\ worker'.job.id = i
                           \/ CountOn(redis'.failed_jobs, i) =
                                  CountOn(redis.failed_jobs, i) + 1
            IN /\ Dispatchable(d) =>
                    /\ call'.job = i
                    /\ call'.path = d.file_path
                    /\ call'.op = IF d.event_type = "deleted"
                                  THEN "remove_file" ELSE "sync_single_file"
                    /\ (call'.pc = "raised") = failedNow
               /\ ~Dispatchable(d) => (call' = call /\ failedNow)
               /\ failedNow => (retried /\ ~worker'.log[i].done)
               /\ ~failedNow =>
                    /\ worker'.log[i].done
                    /\ worker'.pc = "idle"
                    /\ redis' = redis
                    /\ i \notin IdsOn(redis'.sync_jobs)
                              \cup IdsOn(redis'.failed_jobs)]_vars

\* A job with an unknown event type has failed and is on its way through
\* the retries, and a "deleted" job was handed to remove_file and is done.
InvalidRetriedValidDone ==
    \E i, j \in JobIds :
        /\ worker.log[i].data.event_type = "moved"
        /\ worker.log[i].failures > 0
        /\ i \in IdsOn(redis.sync_jobs)
        /\ worker.log[j].data.event_type = "deleted"
        /\ worker.log[j].done
        /\ call = [op |-> "remove_file", path |-> "a.md", job |-> j,
                   pc |-> "returned"]
        /\ j \notin IdsOn(redis.sync_jobs) \cup IdsOn(redis.failed_jobs)

\* ------------------------------------------------------ orphaned documents
\* Documents in the vector store whose file no longer exists.
Orphans == {p \in DOMAIN store : fs[p] = Absent}

\* C36: no vector-store document is orphaned for good: every document
\* whose file no longer exists is deleted by some later differential pass.
\* Here: a differential pass that finds nothing to do, as every later one
\* will while the files stay as they are, leaves no such document behind.
OrphansAreCollected ==
    \A t \in Tasks :
        (/\ AtEnd(t)
         /\ ~tasks[t].force
         /\ ~tasks[t].fsChanged
         /\ Planned(tasks[t]) = <<>>)
            => Orphans = {}

\* ------------------------------------------------- counting of operations

\* C37: in the result of every pass each planned operation is counted once:
\* processed_files + len(errors) is the number of planned operations, and
\* processed_files is at most the total of the pass's status, also when a
\* file disappears between its upsert and the stat() of the chunk estimate.
EachOperationCountedOnce ==
    \A t \in Tasks :
        AtEnd(t) =>
            /\ tasks[t].processed_files + Len(tasks[t].errors) =
                  Len(Planned(tasks[t]))
            /\ tasks[t].processed_files <= status[tasks[t].engine].total


\* ------------------------------------------------------ progress counters

\* The step starts an operation of pass t: a file joins those attempted.
StartsOperation(t) ==
    /\ Active(t) /\ Active(t)'
    /\ tasks'[t].attempted # tasks[t].attempted

\* C38: in every state a status reader can observe 0 <= current <= total;
\* within a pass current never decreases and rises by one with each
\* operation, which is the operation at that position of the work list
\* (deletions first, then sync files); current = total when a pass that had
\* work has ended its loops.
ProgressCountsOperations ==
    /\ [](/\ \A e \in Engines :
               /\ 0 <= status[e].current
               /\ status[e].current <= status[e].total
          /\ reply.asked =>
               /\ 0 <= reply.status.current
               /\ reply.status.current <= reply.status.total
          /\ \A t \in Tasks :
               (AtEnd(t) /\ Planned(tasks[t]) # <<>>) =>
                   status[tasks[t].engine].current =
                       status[tasks[t].engine].total)
    /\ [][\A t \in Tasks :
            LET e == tasks[t].engine
            IN /\ (Active(t) /\ Active(t)') =>
                     status'[e].current >= status[e].current
               /\ StartsOperation(t) =>
                     /\ status'[e].current = status[e].current + 1
                     /\ tasks'[t].attempted = tasks[t].attempted \cup
                           {Planned(tasks[t])[status'[e].current]}
               /\ (Active(t) /\ Active(t)' /\ ~StartsOperation(t)) =>
                     status'[e].current = status[e].current]_vars

\* C38 witness: a pass with one deletion and one sync file has ended its
\* loops with current = total = 2, and a reader saw it at current = 1.
ReaderSawPassHalfway ==
    \E t \in Tasks :
        /\ AtEnd(t)
        /\ Len(tasks[t].files_to_delete) = 1
        /\ Len(tasks[t].files_to_sync) = 1
        /\ status[tasks[t].engine].current = 2
        /\ status[tasks[t].engine].total = 2
        /\ reply.asked /\ reply.duringPass
        /\ reply.status.is_running
        /\ reply.status.current = 1 /\ reply.status.total = 2

====
